---- MODULE Spec2Model ----
(***************************************************************************)
(* The LALR(1) runtime of lalr1_py: the table-driven Parser                *)
(* (src/src/modules/lalr1_py/parser.py) and the recursive-ascent parser    *)
(* that parsergen.py emits for the same tables                             *)
(* (src/src/modules/lalr1_py/parsergen.py).                                *)
(*                                                                         *)
(* Python lists are sequences; the code's 0-based indices are kept and     *)
(* every list access goes through PyAt / PySlice, which follow Python's    *)
(* rules for negative and out-of-range indices.                            *)
(***************************************************************************)
EXTENDS Integers, Sequences, FiniteSets, TLC

\* ------------------------------------------------------------------ bounds
\* longest token list handed to a parser
MaxLen == 6
\* most iterations of the driver loop (or routine steps) followed in one parse
MaxSteps == 14

\* ------------------------------------------------------- python list access
\* xs[i] is defined for -len <= i < len
InRange(xs, i) == i >= 0 - Len(xs) /\ i < Len(xs)

PyAt(xs, i) == IF i >= 0 THEN xs[i + 1] ELSE xs[Len(xs) + i + 1]

\* a slice bound: negative counts from the end, then clamped to 0..len
PyClamp(n, i) ==
  IF i < 0 THEN (IF i + n < 0 THEN 0 ELSE i + n)
  ELSE (IF i > n THEN n ELSE i)

\* xs[a : b]
PySlice(xs, a, b) ==
  LET lo == PyClamp(Len(xs), a)
      hi == PyClamp(Len(xs), b)
  IN IF hi <= lo THEN <<>> ELSE SubSeq(xs, lo + 1, hi)

\* tab[row][col] is defined
InTable(tab, row, col) == InRange(tab, row) /\ InRange(PyAt(tab, row), col)

Cell(tab, row, col) == PyAt(PyAt(tab, row), col)

\* ------------------------------------------------------------ table helpers
\* the entries of an index table are <<id, index>>
HasTableIndex(idx_tab, id) == \E k \in 1..Len(idx_tab) : idx_tab[k][1] = id

get_table_index(idx_tab, id) ==
  LET k == CHOOSE k \in 1..Len(idx_tab) :
             /\ idx_tab[k][1] = id
             /\ \A j \in 1..(k - 1) : idx_tab[j][1] # id
  IN idx_tab[k][2]

HasTableId(idx_tab, idx) == \E k \in 1..Len(idx_tab) : idx_tab[k][2] = idx

get_table_id(idx_tab, idx) ==
  LET k == CHOOSE k \in 1..Len(idx_tab) :
             /\ idx_tab[k][2] = idx
             /\ \A j \in 1..(k - 1) : idx_tab[j][2] # idx
  IN idx_tab[k][1]

has_table_entry(row, err_token) == \E k \in 1..Len(row) : row[k] # err_token

\* ------------------------------------------------------------------- tables
\* start(20) -> sum(21);  sum -> sum '+'(12) num(11);  sum -> num
TablesSum ==
  [ shift |-> << <<255, 2, 255>>, <<255, 255, 3>>, <<255, 255, 255>>,
                 <<255, 4, 255>>, <<255, 255, 255>> >>,
    reduce |-> << <<255, 255, 255>>, <<254, 255, 255>>, <<2, 255, 2>>,
                  <<255, 255, 255>>, <<1, 255, 1>> >>,
    jump |-> << <<255, 1>>, <<255, 255>>, <<255, 255>>, <<255, 255>>, <<255, 255>> >>,
    term_idx |-> << <<10, 0>>, <<11, 1>>, <<12, 2>> >>,
    nonterm_idx |-> << <<20, 0>>, <<21, 1>> >>,
    semantic_idx |-> << <<100, 0>>, <<101, 1>>, <<102, 2>> >>,
    num_rhs_syms |-> <<1, 3, 1>>,
    lhs_idx |-> <<0, 1, 1>>,
    partials_rule_term |-> << <<255, 2, 255>>, <<255, 255, 1>>, <<255, 255, 255>>,
                              <<255, 1, 255>>, <<255, 255, 255>> >>,
    partials_rule_nonterm |-> << <<255, 255>>, <<255, 255>>, <<255, 255>>,
                                 <<255, 255>>, <<255, 255>> >>,
    partials_matchlen_term |-> << <<255, 0, 255>>, <<255, 255, 1>>, <<255, 255, 255>>,
                                  <<255, 2, 255>>, <<255, 255, 255>> >>,
    partials_matchlen_nonterm |-> << <<255, 255>>, <<255, 255>>, <<255, 255>>,
                                     <<255, 255>>, <<255, 255>> >>,
    partials_lhs_nonterm |-> << <<255, 255>>, <<255, 255>>, <<255, 255>>,
                                <<255, 255>>, <<255, 255>> >>,
    acc |-> 254, err |-> 255, end |-> 10, start |-> 0 ]

\* start(20) -> par(21);  par -> '('(11) par ')'(12);  par -> (empty)
TablesNest ==
  [ shift |-> << <<255, 2, 255>>, <<255, 255, 255>>, <<255, 2, 255>>,
                 <<255, 255, 4>>, <<255, 255, 255>> >>,
    reduce |-> << <<2, 255, 255>>, <<254, 255, 255>>, <<255, 255, 2>>,
                  <<255, 255, 255>>, <<1, 255, 1>> >>,
    jump |-> << <<255, 1>>, <<255, 255>>, <<255, 3>>, <<255, 255>>, <<255, 255>> >>,
    term_idx |-> << <<10, 0>>, <<11, 1>>, <<12, 2>> >>,
    nonterm_idx |-> << <<20, 0>>, <<21, 1>> >>,
    semantic_idx |-> << <<100, 0>>, <<101, 1>>, <<102, 2>> >>,
    num_rhs_syms |-> <<1, 3, 0>>,
    lhs_idx |-> <<0, 1, 1>>,
    partials_rule_term |-> << <<255, 1, 255>>, <<255, 255, 255>>, <<255, 1, 255>>,
                              <<255, 255, 1>>, <<255, 255, 255>> >>,
    partials_rule_nonterm |-> << <<255, 0>>, <<255, 255>>, <<255, 1>>,
                                 <<255, 255>>, <<255, 255>> >>,
    partials_matchlen_term |-> << <<255, 0, 255>>, <<255, 255, 255>>, <<255, 0, 255>>,
                                  <<255, 255, 2>>, <<255, 255, 255>> >>,
    partials_matchlen_nonterm |-> << <<255, 1>>, <<255, 255>>, <<255, 2>>,
                                     <<255, 255>>, <<255, 255>> >>,
    partials_lhs_nonterm |-> << <<255, 20>>, <<255, 255>>, <<255, 21>>,
                                <<255, 255>>, <<255, 255>> >>,
    acc |-> 254, err |-> 255, end |-> 10, start |-> 0 ]

\* start(20) -> num(11);  start -> (empty)
TablesOpt ==
  [ shift |-> << <<255, 1, 255>>, <<255, 255, 255>> >>,
    reduce |-> << <<254, 255, 255>>, <<254, 255, 255>> >>,
    jump |-> << <<255>>, <<255>> >>,
    term_idx |-> << <<10, 0>>, <<11, 1>>, <<12, 2>> >>,
    nonterm_idx |-> << <<20, 0>> >>,
    semantic_idx |-> << <<100, 0>>, <<101, 1>> >>,
    num_rhs_syms |-> <<1, 0>>,
    lhs_idx |-> <<0, 0>>,
    partials_rule_term |-> << <<255, 0, 255>>, <<255, 255, 255>> >>,
    partials_rule_nonterm |-> << <<255>>, <<255>> >>,
    partials_matchlen_term |-> << <<255, 0, 255>>, <<255, 255, 255>> >>,
    partials_matchlen_nonterm |-> << <<255>>, <<255>> >>,
    partials_lhs_nonterm |-> << <<255>>, <<255>> >>,
    acc |-> 254, err |-> 255, end |-> 10, start |-> 0 ]

\* start -> A; A -> B B A | d; B -> b: a rule entered again after nonterminals
\* (END = 10, b = 11, d = 12; start = 20, A = 21, B = 22; rules 100..103)
TablesRec ==
  [ shift |-> <<<<255, 4, 3>>,
        <<255, 255, 255>>,
        <<255, 4, 255>>,
        <<255, 255, 255>>,
        <<255, 255, 255>>,
        <<255, 4, 3>>,
        <<255, 255, 255>>>>,
    reduce |-> <<<<255, 255, 255>>,
        <<254, 255, 255>>,
        <<255, 255, 255>>,
        <<2, 255, 255>>,
        <<255, 3, 3>>,
        <<255, 255, 255>>,
        <<1, 255, 255>>>>,
    jump |-> <<<<255, 1, 2>>,
        <<255, 255, 255>>,
        <<255, 255, 5>>,
        <<255, 255, 255>>,
        <<255, 255, 255>>,
        <<255, 6, 2>>,
        <<255, 255, 255>>>>,
    term_idx |-> <<<<10, 0>>, <<11, 1>>, <<12, 2>>>>,
    nonterm_idx |-> <<<<20, 0>>, <<21, 1>>, <<22, 2>>>>,
    semantic_idx |-> <<<<100, 0>>, <<101, 1>>, <<102, 2>>, <<103, 3>>>>,
    num_rhs_syms |-> <<1, 3, 1, 1>>,
    lhs_idx |-> <<0, 1, 1, 2>>,
    partials_rule_term |-> <<<<255, 3, 2>>,
        <<255, 255, 255>>,
        <<255, 3, 255>>,
        <<255, 255, 255>>,
        <<255, 255, 255>>,
        <<255, 3, 2>>,
        <<255, 255, 255>>>>,
    partials_rule_nonterm |-> <<<<255, 0, 1>>,
        <<255, 255, 255>>,
        <<255, 255, 1>>,
        <<255, 255, 255>>,
        <<255, 255, 255>>,
        <<255, 1, 1>>,
        <<255, 255, 255>>>>,
    partials_matchlen_term |-> <<<<255, 0, 0>>,
        <<255, 255, 255>>,
        <<255, 0, 255>>,
        <<255, 255, 255>>,
        <<255, 255, 255>>,
        <<255, 0, 0>>,
        <<255, 255, 255>>>>,
    partials_matchlen_nonterm |-> <<<<255, 1, 1>>,
        <<255, 255, 255>>,
        <<255, 255, 2>>,
        <<255, 255, 255>>,
        <<255, 255, 255>>,
        <<255, 3, 1>>,
        <<255, 255, 255>>>>,
    partials_lhs_nonterm |-> <<<<255, 20, 21>>,
        <<255, 255, 255>>,
        <<255, 255, 21>>,
        <<255, 255, 255>>,
        <<255, 255, 255>>,
        <<255, 21, 21>>,
        <<255, 255, 255>>>>,
    acc |-> 254,
    err |-> 255,
    end |-> 10,
    start |-> 0 ]

\* start -> diff_expr; diff_expr -> ident '=' expr ',' expr; expr -> ident: the
\* rule of the differentiation example that binds its variable on a prefix
\* (END = 10, ident = 11, '=' = 12, ',' = 14; start = 20, diff_expr = 21,
\* expr = 22; rules 100..102)
TablesDiff ==
  [ shift |-> <<<<255, 2, 255, 255>>,
        <<255, 255, 255, 255>>,
        <<255, 255, 3, 255>>,
        <<255, 5, 255, 255>>,
        <<255, 255, 255, 6>>,
        <<255, 255, 255, 255>>,
        <<255, 5, 255, 255>>,
        <<255, 255, 255, 255>>>>,
    reduce |-> <<<<255, 255, 255, 255>>,
        <<254, 255, 255, 255>>,
        <<255, 255, 255, 255>>,
        <<255, 255, 255, 255>>,
        <<255, 255, 255, 255>>,
        <<2, 255, 255, 2>>,
        <<255, 255, 255, 255>>,
        <<1, 255, 255, 255>>>>,
    jump |-> <<<<255, 1, 255>>,
        <<255, 255, 255>>,
        <<255, 255, 255>>,
        <<255, 255, 4>>,
        <<255, 255, 255>>,
        <<255, 255, 255>>,
        <<255, 255, 7>>,
        <<255, 255, 255>>>>,
    term_idx |-> <<<<10, 0>>, <<11, 1>>, <<12, 2>>, <<14, 3>>>>,
    nonterm_idx |-> <<<<20, 0>>, <<21, 1>>, <<22, 2>>>>,
    semantic_idx |-> <<<<100, 0>>, <<101, 1>>, <<102, 2>>>>,
    num_rhs_syms |-> <<1, 5, 1>>,
    lhs_idx |-> <<0, 1, 2>>,
    partials_rule_term |-> <<<<255, 1, 255, 255>>,
        <<255, 255, 255, 255>>,
        <<255, 255, 1, 255>>,
        <<255, 2, 255, 255>>,
        <<255, 255, 255, 1>>,
        <<255, 255, 255, 255>>,
        <<255, 2, 255, 255>>,
        <<255, 255, 255, 255>>>>,
    partials_rule_nonterm |-> <<<<255, 0, 255>>,
        <<255, 255, 255>>,
        <<255, 255, 255>>,
        <<255, 255, 1>>,
        <<255, 255, 255>>,
        <<255, 255, 255>>,
        <<255, 255, 1>>,
        <<255, 255, 255>>>>,
    partials_matchlen_term |-> <<<<255, 0, 255, 255>>,
        <<255, 255, 255, 255>>,
        <<255, 255, 1, 255>>,
        <<255, 0, 255, 255>>,
        <<255, 255, 255, 3>>,
        <<255, 255, 255, 255>>,
        <<255, 0, 255, 255>>,
        <<255, 255, 255, 255>>>>,
    partials_matchlen_nonterm |-> <<<<255, 1, 255>>,
        <<255, 255, 255>>,
        <<255, 255, 255>>,
        <<255, 255, 3>>,
        <<255, 255, 255>>,
        <<255, 255, 255>>,
        <<255, 255, 5>>,
        <<255, 255, 255>>>>,
    partials_lhs_nonterm |-> <<<<255, 20, 255>>,
        <<255, 255, 255>>,
        <<255, 255, 255>>,
        <<255, 255, 21>>,
        <<255, 255, 255>>,
        <<255, 255, 255>>,
        <<255, 255, 21>>,
        <<255, 255, 255>>>>,
    acc |-> 254, err |-> 255, end |-> 10, start |-> 0 ]

\* the tables an LALR(1) table generator hands over for these grammars
GrammarTables == {TablesSum, TablesNest, TablesOpt, TablesRec, TablesDiff}

\* one cell of the shift, reduce or jump table overwritten
SetCell(T, which, s, c, v) ==
  CASE which = "shift" -> [T EXCEPT !.shift[s + 1][c + 1] = v]
    [] which = "reduce" -> [T EXCEPT !.reduce[s + 1][c + 1] = v]
    [] OTHER -> [T EXCEPT !.jump[s + 1][c + 1] = v]

\* the values a damaged cell can hold: no action, accept, a state or rule number
\* (also one past the last rule)
CellValues(T) == {T.err, T.acc} \cup (0..Len(T.num_rhs_syms))

\* tables that differ from the generator's in one cell, or in one rule length
DamagedTables(T) ==
  { SetCell(T, w, s, c, v) :
      w \in {"shift", "reduce"}, s \in 0..(Len(T.shift) - 1),
      c \in 0..(Len(T.shift[1]) - 1), v \in CellValues(T) }
  \cup
  { SetCell(T, "jump", s, c, v) :
      s \in 0..(Len(T.jump) - 1), c \in 0..(Len(T.jump[1]) - 1),
      v \in {T.err} \cup (0..(Len(T.jump) - 1)) }
  \cup
  { [T EXCEPT !.num_rhs_syms[r] = k] : r \in 1..Len(T.num_rhs_syms), k \in 0..4 }

TableSet == GrammarTables \cup DamagedTables(TablesSum) \cup DamagedTables(TablesNest)

\* tables in which a partial-rule cell names a rule index that semantic_idx
\* lacks, or a rule has a left-hand side that nonterm_idx lacks
DamagedIndex(T) ==
  { [T EXCEPT !.partials_rule_term[s + 1][c + 1] = Len(T.semantic_idx),
              !.partials_matchlen_term[s + 1][c + 1] = 1] :
      s \in 0..(Len(T.shift) - 1), c \in 0..(Len(T.shift[1]) - 1) }
  \cup
  { [T EXCEPT !.partials_rule_nonterm[s + 1][c + 1] = Len(T.semantic_idx),
              !.partials_matchlen_nonterm[s + 1][c + 1] = 1] :
      s \in 0..(Len(T.jump) - 1), c \in 0..(Len(T.jump[1]) - 1) }
  \cup
  { [T EXCEPT !.lhs_idx[r] = Len(T.nonterm_idx)] : r \in 1..Len(T.lhs_idx) }

IndexTableSet == TableSet \cup DamagedIndex(TablesSum)

\* every semantic rule id of the tables
RuleIds(T) == { T.semantic_idx[k][1] : k \in 1..Len(T.semantic_idx) }

\* ------------------------------------------------------------------- values
\* Python's None
None == [k |-> "none"]

\* the value the lexer attached to the token at (0-based) position p
TokVal(p) == [k |-> "tok", pos |-> p]

\* what the semantic action of a rule returns: a deterministic function of all
\* it is given, one-to-one so that two results agree only if the calls did
SemCall(rule_id, args, done, retval) ==
  [k |-> "ret", rule |-> rule_id, args |-> args, done |-> done, prev |-> retval]

\* the record of one call of a semantic action, with the handle of the active
\* rule it is made for (-1: none), as the debug output of the parser names it
CallRec(rule_id, args, done, retval, handle) ==
  [rule |-> rule_id, args |-> args, done |-> done, prev |-> retval, handle |-> handle]

\* what the semantic actions of a sequence of calls were handed
SemanticCalls(cs) ==
  [i \in 1..Len(cs) |->
     [rule |-> cs[i].rule, args |-> cs[i].args, done |-> cs[i].done, prev |-> cs[i].prev]]

\* tokens are <<id>> or <<id, value>>; the end token comes without a value,
\* id 13 is in no tables' term_idx
TokenChoices(p) ==
  { <<10>>, <<11, TokVal(p)>>, <<12, TokVal(p)>>, <<13, TokVal(p)>>, <<14, TokVal(p)>> }

\* reading past the end of the token list
NoToken == <<>>

\* -------------------------------------------------------------------- state
VARIABLES
  \* what the caller hands over
  tabs,             \* the parsing tables
  input_tokens,     \* the tokens of the caller's list read so far by a parser
  input_end,        \* TRUE once a read has found the list to end there
  semantics,        \* the rule ids that have a semantic action
  use_partials,     \* the use_partials option of both parsers
  raises,           \* the <<rule id, completed>> calls on which an action raises
  prior,            \* what the caller has kept of an earlier parse()
  \* the table-driven Parser
  pc,               \* "init", "driving", "returned" or "raised"
  error,            \* the exception parse() raised
  result,           \* what parse() returned
  steps,            \* iterations of the driver loop so far
  input_index, lookahead, lookahead_idx, accepted,
  states, symbols, active_rules, cur_rule_handle,
  calls,            \* the calls of semantic actions so far, in order
  overpopped,       \* a reduce has asked for more symbols than the stack held
  \* the Parser class that parsergen.py writes for tabs
  g_pc,             \* "init", "running", "returned", "raised" or "nogen"
  g_error,          \* the exception its parse() raised
  g_result,         \* what its parse() returned
  g_steps,          \* steps of its routines so far
  g_stack,          \* the active calls of state routines: [state, at]
  g_input_index, g_lookahead, g_dist_to_jump, g_accepted,
  g_symbols, g_active_rules, g_cur_rule_handle,
  g_calls           \* the calls of semantic actions so far, in order

inputVars == <<tabs, semantics, use_partials, raises, prior>>
tokenVars == <<input_tokens, input_end>>
parserVars == <<pc, error, result, steps, input_index, lookahead, lookahead_idx,
                accepted, states, symbols, active_rules, cur_rule_handle, calls,
                overpopped>>
genVars == <<g_pc, g_error, g_result, g_steps, g_stack, g_input_index, g_lookahead,
             g_dist_to_jump, g_accepted, g_symbols, g_active_rules,
             g_cur_rule_handle, g_calls>>

\* an empty dict
EmptyDict == [x \in {} |-> <<>>]

\* d[key] = v
SetKey(d, key, v) == [x \in DOMAIN d \cup {key} |-> IF x = key THEN v ELSE d[x]]

\* the token list read at 0-based index i gives tok (NoToken: past the end);
\* a position not read before holds any token, or the list ends there
FetchToken(i, tok) ==
  IF i < Len(input_tokens)
  THEN tok = input_tokens[i + 1] /\ UNCHANGED tokenVars
  ELSE IF input_end
  THEN tok = NoToken /\ UNCHANGED tokenVars
  ELSE \/ /\ Len(input_tokens) < MaxLen
          /\ tok \in TokenChoices(i)
          /\ input_tokens' = Append(input_tokens, tok)
          /\ UNCHANGED input_end
       \/ /\ tok = NoToken
          /\ input_end' = TRUE
          /\ UNCHANGED input_tokens

\* ------------------------------------------------------ table-driven parser
\* a Parser object whose rule counter is one counter of all parser objects
Self_one_counter ==
  [ symbols |-> symbols, states |-> states, lookahead |-> lookahead,
    input_index |-> input_index,
    active_rules |-> active_rules,
    cur_rule_handle |-> IF g_cur_rule_handle > cur_rule_handle
                        THEN g_cur_rule_handle ELSE cur_rule_handle,
    calls |-> calls, raised |-> "" ]

\* the fields of the Parser object that apply_rule and apply_partial_rule use
Self ==
  [ symbols |-> symbols, states |-> states, lookahead |-> lookahead,
    input_index |-> input_index,
    active_rules |-> active_rules, cur_rule_handle |-> cur_rule_handle,
    calls |-> calls, raised |-> "" ]

\* get_next_lookahead, called with input_index = idx0 and the lookahead fields
\* holding la0 and laidx0; next_pc when it returns
\* a get_next_lookahead that skips a token
GetNextLookahead_skips(idx0, la0, laidx0, next_pc) ==
  /\ input_index' = idx0 + 2
  /\ \E tok \in TokenChoices(idx0 + 1) \cup {NoToken} :
       /\ FetchToken(idx0 + 1, tok)
       /\ IF tok = NoToken
          THEN /\ pc' = "raised"
               /\ error' = "EndOfInput"
               /\ lookahead' = la0
               /\ lookahead_idx' = laidx0
          ELSE /\ lookahead' = [ is_term |-> TRUE, id |-> tok[1],
                                 val |-> IF Len(tok) > 1 THEN tok[2] ELSE None ]
               /\ IF HasTableIndex(tabs.term_idx, tok[1])
                  THEN /\ lookahead_idx' = get_table_index(tabs.term_idx, tok[1])
                       /\ pc' = next_pc
                       /\ UNCHANGED error
                  ELSE /\ pc' = "raised"
                       /\ error' = "MissingSymbol"
                       /\ lookahead_idx' = laidx0

\* a get_next_lookahead that keeps the old lookahead at the end of the input
GetNextLookahead_stale(idx0, la0, laidx0, next_pc) ==
  /\ input_index' = idx0 + 1
  /\ \E tok \in TokenChoices(idx0 + 1) \cup {NoToken} :
       /\ FetchToken(idx0 + 1, tok)
       /\ IF tok = NoToken
          THEN /\ pc' = next_pc
               /\ UNCHANGED error
               /\ lookahead' = la0
               /\ lookahead_idx' = laidx0
          ELSE /\ lookahead' = [ is_term |-> TRUE, id |-> tok[1],
                                 val |-> IF Len(tok) > 1 THEN tok[2] ELSE None ]
               /\ IF HasTableIndex(tabs.term_idx, tok[1])
                  THEN /\ lookahead_idx' = get_table_index(tabs.term_idx, tok[1])
                       /\ pc' = next_pc
                       /\ UNCHANGED error
                  ELSE /\ pc' = "raised"
                       /\ error' = "MissingSymbol"
                       /\ lookahead_idx' = laidx0

\* a get_next_lookahead that takes the first column for an unknown token id
GetNextLookahead_fallback(idx0, la0, laidx0, next_pc) ==
  /\ input_index' = idx0 + 1
  /\ \E tok \in TokenChoices(idx0 + 1) \cup {NoToken} :
       /\ FetchToken(idx0 + 1, tok)
       /\ IF tok = NoToken
          THEN /\ pc' = "raised"
               /\ error' = "EndOfInput"
               /\ lookahead' = la0
               /\ lookahead_idx' = laidx0
          ELSE /\ lookahead' = [ is_term |-> TRUE, id |-> tok[1],
                                 val |-> IF Len(tok) > 1 THEN tok[2] ELSE None ]
               /\ IF HasTableIndex(tabs.term_idx, tok[1])
                  THEN /\ lookahead_idx' = get_table_index(tabs.term_idx, tok[1])
                       /\ pc' = next_pc
                       /\ UNCHANGED error
                  ELSE /\ pc' = next_pc
                       /\ UNCHANGED error
                       /\ lookahead_idx' = 0

GetNextLookahead(idx0, la0, laidx0, next_pc) ==
  /\ input_index' = idx0 + 1
  /\ \E tok \in TokenChoices(idx0 + 1) \cup {NoToken} :
       /\ FetchToken(idx0 + 1, tok)
       /\ IF tok = NoToken
          THEN /\ pc' = "raised"
               /\ error' = "EndOfInput"
               /\ lookahead' = la0
               /\ lookahead_idx' = laidx0
          ELSE /\ lookahead' = [ is_term |-> TRUE, id |-> tok[1],
                                 val |-> IF Len(tok) > 1 THEN tok[2] ELSE None ]
               /\ IF HasTableIndex(tabs.term_idx, tok[1])
                  THEN /\ lookahead_idx' = get_table_index(tabs.term_idx, tok[1])
                       /\ pc' = next_pc
                       /\ UNCHANGED error
                  ELSE /\ pc' = "raised"
                       /\ error' = "MissingSymbol"
                       /\ lookahead_idx' = laidx0

\* self.semantics[rule_id](args, done, retval) raises instead of returning
Raises(rule_id, done) == <<rule_id, done>> \in raises

\* apply_rule without the pop of the state stack
apply_rule_keeps_states(P, rule_id, num_rhs, lhs_id) ==
  LET n == Len(P.symbols)
      args == PySlice(P.symbols, n - num_rhs, n)
      has_sem == rule_id \in semantics
      rule_ret == IF has_sem THEN SemCall(rule_id, args, TRUE, None) ELSE None
  IN [P EXCEPT
        !.symbols = Append(PySlice(P.symbols, 0, n - num_rhs),
                           [is_term |-> FALSE, id |-> lhs_id, val |-> rule_ret]),
        !.calls = IF has_sem
                  THEN Append(P.calls, CallRec(rule_id, args, TRUE, None, -1))
                  ELSE P.calls]

\* apply_rule handing the action the whole symbol stack
apply_rule_all_args(P, rule_id, num_rhs, lhs_id) ==
  LET n == Len(P.symbols)
      args == P.symbols
      has_sem == rule_id \in semantics
      rule_ret == IF has_sem THEN SemCall(rule_id, args, TRUE, None) ELSE None
  IN [P EXCEPT
        !.symbols = Append(PySlice(P.symbols, 0, n - num_rhs),
                           [is_term |-> FALSE, id |-> lhs_id, val |-> rule_ret]),
        !.states = PySlice(P.states, 0, Len(P.states) - num_rhs),
        !.calls = IF has_sem
                  THEN Append(P.calls, CallRec(rule_id, args, TRUE, None, -1))
                  ELSE P.calls]

\* an apply_rule that pops the active rule and does not hand its retval on
apply_rule_drops_retval(P, rule_id, num_rhs, lhs_id) ==
  LET pop == /\ use_partials
             /\ rule_id \in DOMAIN P.active_rules
             /\ Len(P.active_rules[rule_id]) > 0
      rulestack == P.active_rules[rule_id]
      prev_ret == IF pop THEN rulestack[Len(rulestack)].retval ELSE None
      handle == IF pop THEN rulestack[Len(rulestack)].handle ELSE -1
      rules1 == IF pop
                THEN [P.active_rules EXCEPT
                        ![rule_id] = PySlice(rulestack, 0, Len(rulestack) - 1)]
                ELSE P.active_rules
      n == Len(P.symbols)
      args == PySlice(P.symbols, n - num_rhs, n)
      has_sem == rule_id \in semantics
      rule_ret == IF has_sem THEN SemCall(rule_id, args, TRUE, None) ELSE None
  IN [P EXCEPT
        !.active_rules = rules1,
        !.symbols = Append(PySlice(P.symbols, 0, n - num_rhs),
                           [is_term |-> FALSE, id |-> lhs_id, val |-> rule_ret]),
        !.states = PySlice(P.states, 0, Len(P.states) - num_rhs),
        !.calls = IF has_sem
                  THEN Append(P.calls, CallRec(rule_id, args, TRUE, None, handle))
                  ELSE P.calls]

\* a pop counted from the end of the list, stack[0 : -num_rhs]
PopSymbols_from_end(stack, num_rhs) == PySlice(stack, 0, 0 - num_rhs)

\* stack[0 : len(stack) - num_rhs]
PopSymbols(stack, num_rhs) == PySlice(stack, 0, Len(stack) - num_rhs)

\* a pop that takes the oldest active rule of the stack
PopActiveRule_oldest(rulestack) == PySlice(rulestack, 1, Len(rulestack))

\* rulestack = rulestack[0 : len(rulestack) - 1]
PopActiveRule(rulestack) == PySlice(rulestack, 0, Len(rulestack) - 1)

apply_rule(P, rule_id, num_rhs, lhs_id) ==
  LET pop == /\ use_partials
             /\ rule_id \in DOMAIN P.active_rules
             /\ Len(P.active_rules[rule_id]) > 0
      rulestack == P.active_rules[rule_id]
      prev_ret == IF pop THEN rulestack[Len(rulestack)].retval ELSE None
      handle == IF pop THEN rulestack[Len(rulestack)].handle ELSE -1
      rules1 == IF pop
                THEN [P.active_rules EXCEPT ![rule_id] = PopActiveRule(rulestack)]
                ELSE P.active_rules
      n == Len(P.symbols)
      args == PySlice(P.symbols, n - num_rhs, n)
      has_sem == rule_id \in semantics
      throws == has_sem /\ Raises(rule_id, TRUE)
      rule_ret == IF has_sem THEN SemCall(rule_id, args, TRUE, prev_ret) ELSE prev_ret
      popped == PopSymbols(P.symbols, num_rhs)
  IN [P EXCEPT
        !.active_rules = rules1,
        \* the exception leaves the stacks popped and nothing pushed
        !.symbols = IF throws THEN popped
                    ELSE Append(popped,
                                [is_term |-> FALSE, id |-> lhs_id, val |-> rule_ret]),
        !.states = PopSymbols(P.states, num_rhs),
        !.calls = IF has_sem
                  THEN Append(P.calls, CallRec(rule_id, args, TRUE, prev_ret, handle))
                  ELSE P.calls,
        !.raised = IF throws THEN "SemanticError" ELSE P.raised]

\* a jump site that never takes its partial for processed
AlreadySeen_never(seen_tokens, rule_len) == FALSE

\* a jump site that takes its partial for processed only beyond its length
AlreadySeen_longer(seen_tokens, rule_len) == seen_tokens > rule_len

\* before jump: active_rule["seen_tokens"] == rule_len
AlreadySeen(seen_tokens, rule_len) == seen_tokens = rule_len

\* a handle counter that is not advanced
NextHandle_same(h) == h

\* self.cur_rule_handle += 1
NextHandle(h) == h + 1

\* a shift site that always continues the top active rule
StartsNewInstance_never(seen_tokens, rule_len) == FALSE

\* before shift: not active_rule["seen_tokens"] < rule_len
StartsNewInstance(seen_tokens, rule_len) == ~(seen_tokens < rule_len)

\* a shift site that calls the action on the bare prefix every time
BarePrefixUnseen_always(seen_tokens_old, rule_len) == TRUE

\* before shift: seen_tokens_old < rule_len - 1
BarePrefixUnseen(seen_tokens_old, rule_len) == seen_tokens_old < rule_len - 1

\* an args that is the symbol stack itself: the lookahead appended to args
\* lands on the stack
SymbolsBesideArgs_aliased(syms, la, appended) ==
  IF appended THEN Append(syms, la) ELSE syms

\* args = self.symbols[len(self.symbols)-arg_len : len(self.symbols)] is a
\* new list: args.append(self.lookahead) leaves self.symbols as it is
SymbolsBesideArgs(syms, la, appended) == syms

apply_partial_rule(P, rule_id, len_arg, before_shift) ==
  LET arg_len == len_arg
      rule_len == IF before_shift THEN len_arg + 1 ELSE len_arg
      rulestack == IF rule_id \in DOMAIN P.active_rules
                   THEN P.active_rules[rule_id] ELSE <<>>
      has_top == Len(rulestack) > 0
      top == rulestack[Len(rulestack)]
      already_seen_active_rule ==
        has_top /\ ~before_shift /\ AlreadySeen(top.seen_tokens, rule_len)
      insert_new_active_rule ==
        ~has_top \/ (before_shift /\ StartsNewInstance(top.seen_tokens, rule_len))
      seen_tokens_old == IF insert_new_active_rule THEN -1 ELSE top.seen_tokens
      updated == IF has_top /\ ~insert_new_active_rule /\ ~already_seen_active_rule
                 THEN [rulestack EXCEPT ![Len(rulestack)].seen_tokens = rule_len]
                 ELSE rulestack
      inserted == IF insert_new_active_rule
                  THEN Append(updated, [ seen_tokens |-> rule_len, retval |-> None,
                                         handle |-> P.cur_rule_handle ])
                  ELSE updated
      run == ~already_seen_active_rule /\ rule_id \in semantics
      active_rule == inserted[Len(inserted)]
      args == PySlice(P.symbols, Len(P.symbols) - arg_len, Len(P.symbols))
      first == run /\ (~before_shift \/ BarePrefixUnseen(seen_tokens_old, rule_len))
      throws1 == first /\ Raises(rule_id, FALSE)
      ret1 == IF first /\ ~throws1 THEN SemCall(rule_id, args, FALSE, active_rule.retval)
              ELSE active_rule.retval
      calls1 == IF first
                THEN Append(P.calls, CallRec(rule_id, args, FALSE, active_rule.retval,
                                             active_rule.handle))
                ELSE P.calls
      second == run /\ before_shift /\ ~throws1
      args2 == Append(args, P.lookahead)
      throws2 == second /\ Raises(rule_id, FALSE)
      ret2 == IF second /\ ~throws2 THEN SemCall(rule_id, args2, FALSE, ret1) ELSE ret1
      calls2 == IF second THEN Append(calls1, CallRec(rule_id, args2, FALSE, ret1,
                                                         active_rule.handle))
                ELSE calls1
  IN [P EXCEPT
        !.symbols = SymbolsBesideArgs(P.symbols, P.lookahead, second),
        !.active_rules = SetKey(P.active_rules, rule_id,
                                [inserted EXCEPT ![Len(inserted)].retval = ret2]),
        !.cur_rule_handle = IF insert_new_active_rule
                            THEN NextHandle(P.cur_rule_handle) ELSE P.cur_rule_handle,
        !.calls = calls2,
        !.raised = IF throws1 \/ throws2 THEN "SemanticError" ELSE P.raised]

\* the loop head of parse(): the top state and the two table entries
top_state == PyAt(states, -1)
HeadOK ==
  /\ InTable(tabs.shift, top_state, lookahead_idx)
  /\ InTable(tabs.reduce, top_state, lookahead_idx)
new_state == Cell(tabs.shift, top_state, lookahead_idx)
rule_idx == Cell(tabs.reduce, top_state, lookahead_idx)

IsNoAction == HeadOK /\ new_state = tabs.err /\ rule_idx = tabs.err
IsConflict == HeadOK /\ new_state # tabs.err /\ rule_idx # tabs.err
\* the accept branch taken on any entry of the reduce table
IsAccept_on_any_reduce == HeadOK /\ new_state = tabs.err /\ rule_idx # tabs.err
IsAccept == HeadOK /\ new_state = tabs.err /\ rule_idx = tabs.acc
IsShift == HeadOK /\ new_state # tabs.err /\ rule_idx = tabs.err
IsReduce == HeadOK /\ new_state = tabs.err /\ rule_idx # tabs.err /\ rule_idx # tabs.acc

\* the table lookups of the reduce branch before apply_rule
ReduceLookupsOK ==
  /\ HasTableId(tabs.semantic_idx, rule_idx)
  /\ InRange(tabs.num_rhs_syms, rule_idx)
  /\ InRange(tabs.lhs_idx, rule_idx)
  /\ HasTableId(tabs.nonterm_idx, PyAt(tabs.lhs_idx, rule_idx))

\* a reset() that keeps the rule handles of the parse before
Reset_keeps_handles ==
  /\ accepted' = FALSE
  /\ states' = <<tabs.start>>
  /\ symbols' = <<>>
  /\ UNCHANGED <<active_rules, cur_rule_handle>>

\* reset()
Reset ==
  /\ accepted' = FALSE
  /\ states' = <<tabs.start>>
  /\ symbols' = <<>>
  /\ active_rules' = EmptyDict
  /\ cur_rule_handle' = 0

\* parse() up to the loop: reset() and the first get_next_lookahead()
Parse ==
  /\ UNCHANGED genVars
  /\ pc = "init"
  /\ Reset
  /\ GetNextLookahead(-1, None, None, "driving")
  \* the calls of semantic actions are counted from the entry of parse()
  /\ calls' = <<>>
  /\ overpopped' = FALSE
  /\ UNCHANGED <<inputVars, result, steps>>

\* no earlier parse()
NoPrior == None

\* what a parse() call leaves in the Parser object and gives to its caller
Outcome ==
  [ pc |-> pc, error |-> error, result |-> result, steps |-> steps,
    input_index |-> input_index, lookahead |-> lookahead,
    lookahead_idx |-> lookahead_idx, accepted |-> accepted, states |-> states,
    symbols |-> symbols, active_rules |-> active_rules,
    cur_rule_handle |-> cur_rule_handle, calls |-> calls ]

\* the caller keeps the outcome of a finished parse() and calls parse() again
\* on the same Parser object, which still holds what the first call left
ParseAgain ==
  /\ UNCHANGED genVars
  /\ pc \in {"returned", "raised"}
  /\ g_pc \in {"returned", "raised", "nogen"}
  /\ prior = NoPrior
  /\ prior' = Outcome
  /\ pc' = "init"
  /\ error' = ""
  /\ result' = None
  /\ steps' = 0
  /\ UNCHANGED <<tabs, semantics, use_partials, raises, tokenVars, input_index,
                 lookahead, lookahead_idx, accepted, states, symbols,
                 active_rules, cur_rule_handle, calls, overpopped>>

\* a table lookup at the loop head or at the start of the reduce branch fails
\* (IndexError) before anything is changed
LookupFails ==
  /\ UNCHANGED genVars
  /\ pc = "driving"
  /\ \/ ~HeadOK
     \/ IsReduce /\ ~ReduceLookupsOK
  /\ pc' = "raised"
  /\ error' = "IndexError"
  /\ UNCHANGED <<inputVars, tokenVars, result, steps, input_index, lookahead,
                 lookahead_idx, accepted, states, symbols, active_rules,
                 cur_rule_handle, calls, overpopped>>

\* a NoAction that pushes the lookahead before it raises
NoAction_pushes ==
  /\ UNCHANGED genVars
  /\ pc = "driving"
  /\ IsNoAction
  /\ pc' = "raised"
  /\ error' = "NoAction"
  /\ symbols' = Append(symbols, lookahead)
  /\ UNCHANGED <<inputVars, tokenVars, result, steps, input_index, lookahead,
                 lookahead_idx, accepted, states, active_rules,
                 cur_rule_handle, calls, overpopped>>

NoAction ==
  /\ UNCHANGED genVars
  /\ pc = "driving"
  /\ IsNoAction
  /\ pc' = "raised"
  /\ error' = "NoAction"
  /\ UNCHANGED <<inputVars, tokenVars, result, steps, input_index, lookahead,
                 lookahead_idx, accepted, states, symbols, active_rules,
                 cur_rule_handle, calls, overpopped>>

\* a conflict resolved in favour of the shift
Conflict_shifts ==
  /\ UNCHANGED genVars
  /\ pc = "driving"
  /\ IsConflict
  /\ steps < MaxSteps
  /\ states' = Append(states, new_state)
  /\ symbols' = Append(symbols, lookahead)
  /\ GetNextLookahead(input_index, lookahead, lookahead_idx, "driving")
  /\ steps' = steps + 1
  /\ UNCHANGED <<inputVars, result, accepted, active_rules, cur_rule_handle,
                 calls, overpopped>>

Conflict ==
  /\ UNCHANGED genVars
  /\ pc = "driving"
  /\ IsConflict
  /\ pc' = "raised"
  /\ error' = "ShiftReduceConflict"
  /\ UNCHANGED <<inputVars, tokenVars, result, steps, input_index, lookahead,
                 lookahead_idx, accepted, states, symbols, active_rules,
                 cur_rule_handle, calls, overpopped>>

\* an accept that returns null whatever the symbol stack holds
Accept_returns_null ==
  /\ UNCHANGED genVars
  /\ pc = "driving"
  /\ IsAccept
  /\ accepted' = TRUE
  /\ result' = None
  /\ pc' = "returned"
  /\ UNCHANGED <<inputVars, tokenVars, error, steps, input_index, lookahead,
                 lookahead_idx, states, symbols, active_rules, cur_rule_handle,
                 calls, overpopped>>

Accept ==
  /\ UNCHANGED genVars
  /\ pc = "driving"
  /\ IsAccept
  /\ accepted' = TRUE
  /\ result' = IF Len(symbols) >= 1 THEN PyAt(symbols, -1) ELSE None
  /\ pc' = "returned"
  /\ UNCHANGED <<inputVars, tokenVars, error, steps, input_index, lookahead,
                 lookahead_idx, states, symbols, active_rules, cur_rule_handle,
                 calls, overpopped>>

\* a shift branch that applies its partial rule whatever use_partials says
ShiftPartial_ignores_toggle(P) ==
  LET partial_idx == Cell(tabs.partials_rule_term, top_state, lookahead_idx)
  IN IF partial_idx # tabs.err
     THEN IF HasTableId(tabs.semantic_idx, partial_idx)
          THEN apply_partial_rule(P, get_table_id(tabs.semantic_idx, partial_idx),
                                  Cell(tabs.partials_matchlen_term, top_state, lookahead_idx),
                                  TRUE)
          \* get_table_id finds no id for the index
          ELSE [P EXCEPT !.raised = "IndexError"]
     ELSE P

\* a shift branch that applies its partial rule to the stack with the lookahead
\* already pushed
ShiftPartial_after_push(P) ==
  LET partial_idx == Cell(tabs.partials_rule_term, top_state, lookahead_idx)
  IN IF use_partials /\ partial_idx # tabs.err
     THEN IF HasTableId(tabs.semantic_idx, partial_idx)
          THEN [apply_partial_rule([P EXCEPT !.symbols = Append(P.symbols, P.lookahead)],
                                   get_table_id(tabs.semantic_idx, partial_idx),
                                   Cell(tabs.partials_matchlen_term, top_state, lookahead_idx),
                                   TRUE)
                  EXCEPT !.symbols = P.symbols]
          \* get_table_id finds no id for the index
          ELSE [P EXCEPT !.raised = "IndexError"]
     ELSE P

\* the partial rule the shift branch applies first, if any
ShiftPartial(P) ==
  LET partial_idx == Cell(tabs.partials_rule_term, top_state, lookahead_idx)
  IN IF use_partials /\ partial_idx # tabs.err
     THEN IF HasTableId(tabs.semantic_idx, partial_idx)
          THEN apply_partial_rule(P, get_table_id(tabs.semantic_idx, partial_idx),
                                  Cell(tabs.partials_matchlen_term, top_state, lookahead_idx),
                                  TRUE)
          \* get_table_id finds no id for the index
          ELSE [P EXCEPT !.raised = "IndexError"]
     ELSE P

Shift ==
  /\ UNCHANGED genVars
  /\ pc = "driving"
  /\ IsShift
  /\ steps < MaxSteps
  /\ \E P \in {ShiftPartial(Self)} :
       /\ active_rules' = P.active_rules
       /\ cur_rule_handle' = P.cur_rule_handle
       /\ calls' = P.calls
       /\ IF P.raised # ""
          THEN \* the exception leaves apply_partial_rule and parse()
               /\ pc' = "raised"
               /\ error' = P.raised
               /\ UNCHANGED <<tokenVars, states, symbols, input_index, lookahead,
                              lookahead_idx>>
          ELSE /\ states' = Append(states, new_state)
               \* push_lookahead
               /\ symbols' = Append(P.symbols, lookahead)
               /\ GetNextLookahead(input_index, lookahead, lookahead_idx, "driving")
  /\ steps' = steps + 1
  /\ UNCHANGED <<inputVars, result, accepted, overpopped>>

\* a reduce branch that applies its partial rule whatever use_partials says
JumpPartial_ignores_toggle(P, top, lhs_idx) ==
  LET partial_idx == Cell(tabs.partials_rule_nonterm, top, lhs_idx)
  IN IF Len(P.symbols) > 0 /\ partial_idx # tabs.err
     THEN IF HasTableId(tabs.semantic_idx, partial_idx)
          THEN apply_partial_rule(P, get_table_id(tabs.semantic_idx, partial_idx),
                                  Cell(tabs.partials_matchlen_nonterm, top, lhs_idx),
                                  FALSE)
          \* get_table_id finds no id for the index
          ELSE [P EXCEPT !.raised = "IndexError"]
     ELSE P

\* the partial rule the reduce branch applies after apply_rule, if any;
\* top is the top state after the pop
JumpPartial(P, top, lhs_idx) ==
  LET partial_idx == Cell(tabs.partials_rule_nonterm, top, lhs_idx)
  IN IF use_partials /\ Len(P.symbols) > 0 /\ partial_idx # tabs.err
     THEN IF HasTableId(tabs.semantic_idx, partial_idx)
          THEN apply_partial_rule(P, get_table_id(tabs.semantic_idx, partial_idx),
                                  Cell(tabs.partials_matchlen_nonterm, top, lhs_idx),
                                  FALSE)
          \* get_table_id finds no id for the index
          ELSE [P EXCEPT !.raised = "IndexError"]
     ELSE P

Reduce ==
  /\ UNCHANGED genVars
  /\ pc = "driving"
  /\ IsReduce
  /\ ReduceLookupsOK
  /\ steps < MaxSteps
  /\ LET rule_id == get_table_id(tabs.semantic_idx, rule_idx)
         num_syms == PyAt(tabs.num_rhs_syms, rule_idx)
         lhs_idx == PyAt(tabs.lhs_idx, rule_idx)
         lhs_id == get_table_id(tabs.nonterm_idx, lhs_idx)
     IN \E P1 \in {apply_rule(Self, rule_id, num_syms, lhs_id)} :
        LET top == PyAt(P1.states, -1)
            \* states[-1] and the rows top_state of the jump tables exist
            ok == Len(P1.states) > 0 /\ InTable(tabs.jump, top, lhs_idx)
        IN \E P2 \in {IF P1.raised = "" /\ ok THEN JumpPartial(P1, top, lhs_idx) ELSE P1} :
           /\ symbols' = P2.symbols
           /\ active_rules' = P2.active_rules
           /\ cur_rule_handle' = P2.cur_rule_handle
           /\ calls' = P2.calls
           /\ overpopped' = (overpopped \/ num_syms > Len(symbols))
           /\ IF P2.raised # ""
              THEN \* the exception leaves apply_rule or apply_partial_rule and parse()
                   /\ states' = P2.states
                   /\ pc' = "raised"
                   /\ error' = P2.raised
              ELSE IF ok
              THEN /\ states' = Append(P2.states, Cell(tabs.jump, top, lhs_idx))
                   /\ UNCHANGED <<pc, error>>
              ELSE /\ states' = P2.states
                   /\ pc' = "raised"
                   /\ error' = "IndexError"
  /\ steps' = steps + 1
  /\ UNCHANGED <<inputVars, tokenVars, result, input_index, lookahead,
                 lookahead_idx, accepted>>

ParserStep ==
  \/ Parse
  \/ LookupFails
  \/ NoAction
  \/ Conflict
  \/ Accept
  \/ Shift
  \/ Reduce

\* --------------------------------------------- generated (recursive ascent)
\* the fields of the generated Parser object that its helpers use
GSelf ==
  [ symbols |-> g_symbols, lookahead |-> g_lookahead,
    active_rules |-> g_active_rules, cur_rule_handle |-> g_cur_rule_handle,
    calls |-> g_calls, dist_to_jump |-> g_dist_to_jump, raised |-> "" ]

\* the apply_partial_rule the generator writes: the text of the Parser's
g_apply_partial_rule(P, rule_id, len_arg, before_shift) ==
  apply_partial_rule(P, rule_id, len_arg, before_shift)

\* the apply_rule the generator writes
g_apply_rule(P, rule_id, num_rhs, lhs_id) ==
  LET pop == /\ use_partials
             /\ rule_id \in DOMAIN P.active_rules
             /\ Len(P.active_rules[rule_id]) > 0
      rulestack == P.active_rules[rule_id]
      rule_ret0 == IF pop THEN rulestack[Len(rulestack)].retval ELSE None
      handle == IF pop THEN rulestack[Len(rulestack)].handle ELSE -1
      rules1 == IF pop
                THEN [P.active_rules EXCEPT
                        ![rule_id] = PySlice(rulestack, 0, Len(rulestack) - 1)]
                ELSE P.active_rules
      n == Len(P.symbols)
      args == PySlice(P.symbols, n - num_rhs, n)
      has_sem == rule_id \in semantics
      throws == has_sem /\ Raises(rule_id, TRUE)
      \* the action is handed None, not the popped active rule's retval
      rule_ret == IF has_sem THEN SemCall(rule_id, args, TRUE, None) ELSE rule_ret0
      popped == PySlice(P.symbols, 0, n - num_rhs)
  IN [P EXCEPT
        !.active_rules = rules1,
        !.dist_to_jump = num_rhs,
        !.symbols = IF throws THEN popped
                    ELSE Append(popped,
                                [is_term |-> FALSE, id |-> lhs_id, val |-> rule_ret]),
        !.calls = IF has_sem
                  THEN Append(P.calls, CallRec(rule_id, args, TRUE, None, handle))
                  ELSE P.calls,
        !.raised = IF throws THEN "SemanticError" ELSE P.raised]

\* write_closure(tables, s): what the generator looks up while writing state_s
ClosureOK(T, s) ==
  /\ \A ti \in 0..(Len(PyAt(T.shift, s)) - 1) :
       /\ HasTableId(T.term_idx, ti)
       /\ LET r == Cell(T.reduce, s, ti) IN
          (Cell(T.shift, s, ti) = T.err /\ r # T.err /\ r # T.acc)
            => /\ InRange(T.num_rhs_syms, r)
               /\ InRange(T.lhs_idx, r)
               /\ HasTableId(T.nonterm_idx, PyAt(T.lhs_idx, r))
               /\ HasTableId(T.semantic_idx, r)
       /\ LET pidx == Cell(T.partials_rule_term, s, ti) IN
          (Cell(T.shift, s, ti) # T.err /\ pidx # T.err)
            => HasTableId(T.semantic_idx, pidx)
  /\ has_table_entry(PyAt(T.jump, s), T.err) =>
       \A ni \in 0..(Len(PyAt(T.jump, s)) - 1) :
         /\ HasTableId(T.nonterm_idx, ni)
         /\ LET lhs_id == Cell(T.partials_lhs_nonterm, s, ni) IN
            (Cell(T.jump, s, ni) # T.err /\ lhs_id # T.err)
              => /\ HasTableIndex(T.nonterm_idx, lhs_id)
                 /\ LET lhs_idx == get_table_index(T.nonterm_idx, lhs_id)
                        pidx == Cell(T.partials_rule_nonterm, s, lhs_idx)
                    IN pidx # T.err => HasTableId(T.semantic_idx, pidx)

\* create_parser(tables) writes a parser
create_parser(T) ==
  /\ Len(T.shift) # 0
  /\ \A s \in 0..(Len(T.shift) - 1) : ClosureOK(T, s)

\* the routine state_n exists
HasRoutine(T, n) == n >= 0 /\ n < Len(T.shift)

\* the table column whose case of state_s's terminal match the id lid takes:
\* the shift cases come first, then the reduce cases, then the accept case
TermColumns(T, lid) ==
  { ti \in 0..(Len(T.shift[1]) - 1) : get_table_id(T.term_idx, ti) = lid }

TermCase(T, s, lid) ==
  LET cols == TermColumns(T, lid)
      shifts == { ti \in cols : Cell(T.shift, s, ti) # T.err }
      reduces == { ti \in cols \ shifts :
                     Cell(T.reduce, s, ti) # T.err /\ Cell(T.reduce, s, ti) # T.acc }
      accepts == { ti \in cols \ shifts : Cell(T.reduce, s, ti) = T.acc }
      first(S) == CHOOSE ti \in S : \A tj \in S : ti <= tj
  IN IF shifts # {} THEN [kind |-> "shift", col |-> first(shifts)]
     ELSE IF reduces # {} THEN [kind |-> "reduce", col |-> first(reduces)]
     ELSE IF accepts # {} THEN [kind |-> "accept", col |-> first(accepts)]
     ELSE [kind |-> "default", col |-> 0]

\* the case of state_s's nonterminal match the id nid takes (-1: the default)
JumpColumn(T, s, nid) ==
  LET cols == { ni \in 0..(Len(PyAt(T.jump, s)) - 1) :
                  get_table_id(T.nonterm_idx, ni) = nid /\ Cell(T.jump, s, ni) # T.err }
  IN IF cols = {} THEN -1 ELSE CHOOSE ni \in cols : \A nj \in cols : ni <= nj

\* the partial rule written into the case of nonterminal column ni of state_s
GenJumpPartial(T, s, ni, P) ==
  LET lhs_id == Cell(T.partials_lhs_nonterm, s, ni)
      lhs_idx == get_table_index(T.nonterm_idx, lhs_id)
      pidx == Cell(T.partials_rule_nonterm, s, lhs_idx)
  IN IF lhs_id # T.err /\ pidx # T.err /\ use_partials
     THEN g_apply_partial_rule(P, get_table_id(T.semantic_idx, pidx),
                               Cell(T.partials_matchlen_nonterm, s, lhs_idx), FALSE)
     ELSE P

\* the partial rule written into the shift case of terminal column ti of state_s
GenShiftPartial(T, s, ti, P) ==
  LET pidx == Cell(T.partials_rule_term, s, ti)
  IN IF pidx # T.err /\ use_partials
     THEN g_apply_partial_rule(P, get_table_id(T.semantic_idx, pidx),
                               Cell(T.partials_matchlen_term, s, ti), TRUE)
     ELSE P

\* the routine on top of the call stack
frame == g_stack[Len(g_stack)]

\* replace the top frame's position
At(where) == [g_stack EXCEPT ![Len(g_stack)].at = where]

\* the generated get_next_lookahead, called with input_index = idx0
GGetNextLookahead(idx0) ==
  /\ g_input_index' = idx0 + 1
  /\ \E tok \in TokenChoices(idx0 + 1) \cup {NoToken} :
       /\ FetchToken(idx0 + 1, tok)
       /\ IF tok = NoToken
          THEN /\ g_pc' = "raised"
               /\ g_error' = "EndOfInput"
               /\ UNCHANGED g_lookahead
          ELSE /\ g_lookahead' = [ is_term |-> TRUE, id |-> tok[1],
                                   val |-> IF Len(tok) > 1 THEN tok[2] ELSE None ]
               /\ UNCHANGED <<g_pc, g_error>>

\* the generator fails on the tables: there is no parser to run
GenerateFailsNow ==
  /\ g_pc = "init"
  /\ ~create_parser(tabs)
  /\ g_pc' = "nogen"
  /\ UNCHANGED <<inputVars, tokenVars, parserVars, g_error, g_result, g_steps,
                 g_stack, g_input_index, g_lookahead, g_dist_to_jump, g_accepted,
                 g_symbols, g_active_rules, g_cur_rule_handle, g_calls>>

\* the written parser is made and run after the table-driven parse has ended
GenerateFails == pc \in {"returned", "raised"} /\ GenerateFailsNow

\* the generated parse() up to the call of state_START
GParseNow ==
  /\ g_pc = "init"
  /\ create_parser(tabs)
  /\ g_dist_to_jump' = 0
  /\ g_accepted' = FALSE
  /\ g_symbols' = <<>>
  /\ g_active_rules' = EmptyDict
  /\ g_cur_rule_handle' = 0
  /\ g_input_index' = 0
  /\ \E tok \in TokenChoices(0) \cup {NoToken} :
       /\ FetchToken(0, tok)
       /\ IF tok = NoToken
          THEN /\ g_pc' = "raised"
               /\ g_error' = "EndOfInput"
               /\ UNCHANGED <<g_lookahead, g_stack>>
          ELSE /\ g_lookahead' = [ is_term |-> TRUE, id |-> tok[1],
                                   val |-> IF Len(tok) > 1 THEN tok[2] ELSE None ]
               /\ IF HasRoutine(tabs, tabs.start)
                  THEN /\ g_pc' = "running"
                       /\ g_stack' = <<[state |-> tabs.start, at |-> "match"]>>
                       /\ UNCHANGED g_error
                  ELSE /\ g_pc' = "raised"
                       /\ g_error' = "AttributeError"
                       /\ UNCHANGED g_stack
  /\ UNCHANGED <<inputVars, parserVars, g_result, g_steps, g_calls>>

GParse == pc \in {"returned", "raised"} /\ GParseNow

\* state_s: the default case of the terminal match
GInvalidTerminal ==
  /\ g_pc = "running" /\ g_stack # <<>> /\ frame.at = "match"
  /\ TermCase(tabs, frame.state, g_lookahead.id).kind = "default"
  /\ g_pc' = "raised"
  /\ g_error' = "InvalidTerminalTransition"
  /\ UNCHANGED <<inputVars, tokenVars, parserVars, g_result, g_steps, g_stack,
                 g_input_index, g_lookahead, g_dist_to_jump, g_accepted, g_symbols,
                 g_active_rules, g_cur_rule_handle, g_calls>>

\* state_s: a shift case, then push_lookahead() and the call of next_state
GShift ==
  /\ g_pc = "running" /\ g_stack # <<>> /\ frame.at = "match"
  /\ g_steps < MaxSteps
  /\ LET c == TermCase(tabs, frame.state, g_lookahead.id)
         target == Cell(tabs.shift, frame.state, c.col)
     IN /\ c.kind = "shift"
        /\ IF ~HasRoutine(tabs, target)
           THEN \* next_state = self.state_n names no routine
                /\ g_pc' = "raised"
                /\ g_error' = "AttributeError"
                /\ UNCHANGED <<tokenVars, g_stack, g_input_index, g_lookahead,
                               g_symbols, g_active_rules, g_cur_rule_handle, g_calls>>
           ELSE LET P == GenShiftPartial(tabs, frame.state, c.col, GSelf) IN
                /\ g_active_rules' = P.active_rules
                /\ g_cur_rule_handle' = P.cur_rule_handle
                /\ g_calls' = P.calls
                /\ IF P.raised # ""
                   THEN /\ g_pc' = "raised"
                        /\ g_error' = P.raised
                        /\ UNCHANGED <<tokenVars, g_stack, g_input_index,
                                       g_lookahead, g_symbols>>
                   ELSE /\ g_symbols' = Append(P.symbols, g_lookahead)
                        /\ GGetNextLookahead(g_input_index)
                        /\ g_stack' = Append(At("loop"),
                                             [state |-> target, at |-> "match"])
  /\ g_steps' = g_steps + 1
  /\ UNCHANGED <<inputVars, parserVars, g_result, g_dist_to_jump, g_accepted>>

\* state_s: a reduce case
GReduce ==
  /\ g_pc = "running" /\ g_stack # <<>> /\ frame.at = "match"
  /\ g_steps < MaxSteps
  /\ LET c == TermCase(tabs, frame.state, g_lookahead.id)
         r == Cell(tabs.reduce, frame.state, c.col)
         lhs_idx == PyAt(tabs.lhs_idx, r)
         P == g_apply_rule(GSelf, get_table_id(tabs.semantic_idx, r),
                           PyAt(tabs.num_rhs_syms, r),
                           get_table_id(tabs.nonterm_idx, lhs_idx))
     IN /\ c.kind = "reduce"
        /\ g_active_rules' = P.active_rules
        /\ g_symbols' = P.symbols
        /\ g_calls' = P.calls
        /\ g_dist_to_jump' = P.dist_to_jump
        /\ IF P.raised # ""
           THEN /\ g_pc' = "raised"
                /\ g_error' = P.raised
                /\ UNCHANGED g_stack
           ELSE /\ g_stack' = At("loop")
                /\ UNCHANGED <<g_pc, g_error>>
  /\ g_steps' = g_steps + 1
  /\ UNCHANGED <<inputVars, tokenVars, parserVars, g_result,
                 g_input_index, g_lookahead, g_accepted, g_cur_rule_handle>>

\* state_s: the accept case
GAccept ==
  /\ g_pc = "running" /\ g_stack # <<>> /\ frame.at = "match"
  /\ TermCase(tabs, frame.state, g_lookahead.id).kind = "accept"
  /\ g_accepted' = TRUE
  /\ g_stack' = At("loop")
  /\ UNCHANGED <<inputVars, tokenVars, parserVars, g_pc, g_error, g_result, g_steps,
                 g_input_index, g_lookahead, g_dist_to_jump, g_symbols,
                 g_active_rules, g_cur_rule_handle, g_calls>>

\* state_s has a jump loop and its condition holds (the top symbol is a nonterminal)
InJumpLoop ==
  /\ has_table_entry(PyAt(tabs.jump, frame.state), tabs.err)
  /\ g_dist_to_jump = 0
  /\ Len(g_symbols) > 0
  /\ ~g_accepted
  /\ ~PyAt(g_symbols, -1).is_term

\* state_s: one turn of the jump loop: the partial rule and the call of the goto state
GJump ==
  /\ g_pc = "running" /\ g_stack # <<>> /\ frame.at = "loop"
  /\ g_steps < MaxSteps
  /\ InJumpLoop
  /\ LET ni == JumpColumn(tabs, frame.state, PyAt(g_symbols, -1).id)
         target == Cell(tabs.jump, frame.state, ni)
         P == GenJumpPartial(tabs, frame.state, ni, GSelf)
     IN /\ ni # -1
        /\ g_active_rules' = P.active_rules
        /\ g_cur_rule_handle' = P.cur_rule_handle
        /\ g_calls' = P.calls
        /\ IF P.raised # ""
           THEN /\ g_pc' = "raised"
                /\ g_error' = P.raised
                /\ UNCHANGED g_stack
           ELSE IF HasRoutine(tabs, target)
           THEN /\ g_stack' = Append(g_stack, [state |-> target, at |-> "match"])
                /\ UNCHANGED <<g_pc, g_error>>
           ELSE /\ g_pc' = "raised"
                /\ g_error' = "AttributeError"
                /\ UNCHANGED g_stack
  /\ g_steps' = g_steps + 1
  /\ UNCHANGED <<inputVars, tokenVars, parserVars, g_result, g_input_index,
                 g_lookahead, g_dist_to_jump, g_accepted, g_symbols>>

\* state_s: the default case of the nonterminal match
GInvalidNonterminal ==
  /\ g_pc = "running" /\ g_stack # <<>> /\ frame.at = "loop"
  /\ InJumpLoop
  /\ JumpColumn(tabs, frame.state, PyAt(g_symbols, -1).id) = -1
  /\ g_pc' = "raised"
  /\ g_error' = "InvalidNonterminalTransition"
  /\ UNCHANGED <<inputVars, tokenVars, parserVars, g_result, g_steps, g_stack,
                 g_input_index, g_lookahead, g_dist_to_jump, g_accepted, g_symbols,
                 g_active_rules, g_cur_rule_handle, g_calls>>

\* a routine that returns without counting itself
GReturn_keeps_dist ==
  /\ g_pc = "running" /\ g_stack # <<>> /\ frame.at = "loop"
  /\ ~InJumpLoop
  /\ g_stack' = SubSeq(g_stack, 1, Len(g_stack) - 1)
  /\ UNCHANGED <<inputVars, tokenVars, parserVars, g_pc, g_error, g_result, g_steps,
                 g_input_index, g_lookahead, g_accepted, g_symbols, g_active_rules,
                 g_cur_rule_handle, g_calls, g_dist_to_jump>>

\* state_s returns: the jump loop is over (or was not written)
GReturn ==
  /\ g_pc = "running" /\ g_stack # <<>> /\ frame.at = "loop"
  /\ ~InJumpLoop
  /\ g_dist_to_jump' = g_dist_to_jump - 1
  /\ g_stack' = SubSeq(g_stack, 1, Len(g_stack) - 1)
  /\ UNCHANGED <<inputVars, tokenVars, parserVars, g_pc, g_error, g_result, g_steps,
                 g_input_index, g_lookahead, g_accepted, g_symbols, g_active_rules,
                 g_cur_rule_handle, g_calls>>

\* a generated parse() that returns the top symbol whether accepted or not
GFinish_ignores_accepted ==
  /\ g_pc = "running" /\ g_stack = <<>>
  /\ g_result' = IF Len(g_symbols) < 1 THEN None ELSE PyAt(g_symbols, -1)
  /\ g_pc' = "returned"
  /\ UNCHANGED <<inputVars, tokenVars, parserVars, g_error, g_steps, g_stack,
                 g_input_index, g_lookahead, g_dist_to_jump, g_accepted, g_symbols,
                 g_active_rules, g_cur_rule_handle, g_calls>>

\* the generated parse() after state_START has returned
GFinish ==
  /\ g_pc = "running" /\ g_stack = <<>>
  /\ g_result' = IF Len(g_symbols) < 1 \/ ~g_accepted THEN None
                 ELSE PyAt(g_symbols, -1)
  /\ g_pc' = "returned"
  /\ UNCHANGED <<inputVars, tokenVars, parserVars, g_error, g_steps, g_stack,
                 g_input_index, g_lookahead, g_dist_to_jump, g_accepted, g_symbols,
                 g_active_rules, g_cur_rule_handle, g_calls>>

GeneratedStep ==
  \/ GenerateFails
  \/ GParse
  \/ GInvalidTerminal
  \/ GShift
  \/ GReduce
  \/ GAccept
  \/ GJump
  \/ GInvalidNonterminal
  \/ GReturn
  \/ GFinish

\* --------------------------------------------------------------- the system
\* the state after construction, the damaged tables drawn from Tables
InitWith(Tables) ==
  \* the generator's tables with every choice of options, damaged tables with
  \* all actions and partial rules in use
  /\ \/ /\ tabs \in GrammarTables
        /\ semantics \in {RuleIds(tabs), {}}
        /\ use_partials \in BOOLEAN
        /\ raises = {}
     \/ \* one of the actions raises, on its partial or on its completed calls
        /\ tabs \in GrammarTables
        /\ semantics = RuleIds(tabs)
        /\ use_partials \in BOOLEAN
        /\ raises \in { {<<r, d>>} : r \in RuleIds(tabs), d \in BOOLEAN }
     \/ /\ tabs \in Tables
        /\ semantics = RuleIds(tabs)
        /\ use_partials = TRUE
        /\ raises = {}
  /\ prior = NoPrior
  /\ input_tokens = <<>>
  /\ input_end = FALSE
  /\ pc = "init"
  /\ error = ""
  /\ result = None
  /\ steps = 0
  /\ input_index = -1
  /\ lookahead = None
  /\ lookahead_idx = None
  /\ accepted = FALSE
  /\ states = <<tabs.start>>
  /\ symbols = <<>>
  /\ active_rules = EmptyDict
  /\ cur_rule_handle = 0
  /\ calls = <<>>
  /\ overpopped = FALSE
  /\ g_pc = "init"
  /\ g_error = ""
  /\ g_result = None
  /\ g_steps = 0
  /\ g_stack = <<>>
  /\ g_input_index = -1
  /\ g_lookahead = None
  /\ g_dist_to_jump = 0
  /\ g_accepted = FALSE
  /\ g_symbols = <<>>
  /\ g_active_rules = EmptyDict
  /\ g_cur_rule_handle = 0
  /\ g_calls = <<>>

Init == InitWith(TableSet)

vars == <<inputVars, tokenVars, parserVars, genVars>>

Next == ParserStep \/ GeneratedStep \/ ParseAgain

Spec == Init /\ [][Next]_vars

\* a parse() call of the table-driven parser alone, also with tables whose
\* index tables lack an entry
ParseSpec == InitWith(IndexTableSet) /\ [][ParserStep]_vars

\* two parser objects on the same tables and tokens, their steps interleaved:
\* the written parser is made and run at any time of the table-driven parse;
\* when both have ended, the table-driven parse is run once more, alone
SharedTables ==
  { SetCell(TablesSum, "reduce", 0, 1, 2),
    SetCell(TablesSum, "reduce", 2, 0, 3),
    SetCell(TablesSum, "reduce", 2, 0, 0) }

SharedNext ==
  \/ ParserStep
  \/ GenerateFailsNow
  \/ GParseNow
  \/ GInvalidTerminal
  \/ GShift
  \/ GReduce
  \/ GAccept
  \/ GJump
  \/ GInvalidNonterminal
  \/ GReturn
  \/ GFinish
  \/ ParseAgain

SharedSpec == InitWith(SharedTables) /\ [][SharedNext]_vars

\* one parse() call of the table-driven parser taken alone: the call has no
\* suspension point, so its loop takes its next step whenever there is one
LiveSpec == Init /\ [][ParserStep]_vars /\ WF_vars(ParserStep)

\* ------------------------------------------------------------------- claims
\* the top of the symbol stack, or null
TopSymbol == IF symbols = <<>> THEN None ELSE symbols[Len(symbols)]

\* C1 as stated: at every loop head of parse(), for any tables and tokens,
\* len(states) = len(symbols) + 1
C1_AnyTables == pc = "driving" => Len(states) = Len(symbols) + 1

\* C1: at every loop head of parse(), len(states) = len(symbols) + 1 as long as
\* no reduce has asked for more symbols than the symbol stack held
C1_StackDepths == (pc = "driving" /\ ~overpopped) => Len(states) = Len(symbols) + 1

\* a loop head after shifts and a reduce, under tables no generator made
C1_Witness ==
  /\ pc = "driving" /\ ~overpopped /\ tabs \notin GrammarTables
  /\ Len(symbols) >= 2 /\ steps >= 3
  /\ \E i \in 1..Len(calls) : calls[i].done

\* C2: where reduce[s][t] is ACCEPT and shift[s][t] is ERROR, parse() returns the
\* top symbol, or null on an empty symbol stack, and the step changes no stack
\* and calls no semantic action
C2_AcceptReturnsTop ==
  [][(pc = "driving" /\ IsAccept)
       => /\ pc' = "returned"
          /\ result' = TopSymbol
          /\ UNCHANGED <<states, symbols, active_rules, calls>>]_vars

\* parse() has returned the symbol a completed action made
C2_Witness ==
  /\ pc = "returned" /\ accepted /\ IsAccept
  /\ symbols # <<>> /\ result = TopSymbol /\ result.val # None

C4_NoActionAborts ==
  [][(pc = "driving" /\ IsNoAction)
       => /\ pc' = "raised"
          /\ error' = "NoAction"
          /\ UNCHANGED <<states, symbols, input_index, lookahead, lookahead_idx,
                         active_rules, cur_rule_handle, calls>>]_vars

\* parse() has raised NoAction after shifts and a completed action
C4_Witness ==
  /\ pc = "raised" /\ error = "NoAction" /\ IsNoAction
  /\ steps >= 2 /\ calls # <<>>

\* C5: where shift[s][t] and reduce[s][t] are both set (reduce[s][t] may be
\* ACCEPT), parse() raises the shift/reduce-conflict error and does neither the
\* shift, the reduce nor the accept
C5_ConflictAborts ==
  [][(pc = "driving" /\ IsConflict)
       => /\ pc' = "raised"
          /\ error' = "ShiftReduceConflict"
          /\ UNCHANGED <<states, symbols, input_index, lookahead, lookahead_idx,
                         active_rules, cur_rule_handle, calls, accepted, result>>]_vars

\* parse() has raised the conflict error on a cell whose reduce entry is ACCEPT
C5_Witness ==
  /\ pc = "raised" /\ error = "ShiftReduceConflict"
  /\ IsConflict /\ rule_idx = tabs.acc /\ ~accepted /\ steps >= 2

\* C6: a reduce whose jump entry is ERROR aborts, so that the ERROR sentinel
\* is never an element of the state stack
C6_NoErrorState == \A i \in 1..Len(states) : states[i] # tabs.err

\* C7: a shift step advances input_index by one and pushes one symbol, the
\* former lookahead, and one state, shift[s][t], unless an exception of a
\* semantic action ends the parse before the push; a reduce step and a call
\* of apply_partial_rule leave input_index and the lookahead as they are
C7_ShiftAdvancesReduceKeeps ==
  [][/\ (pc = "driving" /\ IsShift /\ error' # "SemanticError")
          => /\ input_index' = input_index + 1
             /\ symbols' = Append(symbols, lookahead)
             /\ states' = Append(states, new_state)
     /\ (pc = "driving" /\ IsShift)
          => /\ ShiftPartial(Self).input_index = input_index
             /\ ShiftPartial(Self).lookahead = lookahead
     /\ (pc = "driving" /\ IsReduce)
          => UNCHANGED <<input_index, lookahead, lookahead_idx>>]_vars

\* a loop head after two shifts, a reduce and a call of a partial rule
C7_Witness ==
  /\ pc = "driving" /\ use_partials /\ input_index >= 2
  /\ \E i \in 1..Len(calls) : calls[i].done
  /\ \E i \in 1..Len(calls) : ~calls[i].done

C9_SameCalls ==
  (tabs \in GrammarTables /\ pc = "returned" /\ accepted /\ g_pc \in {"returned", "raised"})
    => SemanticCalls(g_calls) = SemanticCalls(calls)

\* C10: for every input the table-driven parser accepts, the written parser
\* accepts too and returns a top symbol of the same id and value
C10_SameResult ==
  (tabs \in GrammarTables /\ pc = "returned" /\ accepted /\ g_pc \in {"returned", "raised"})
    => /\ g_pc = "returned"
       /\ g_accepted
       /\ g_result = result

\* C11: whatever the table-driven parser rejects (no action, a shift/reduce
\* conflict, an invalid goto or an unknown lookahead id), the written parser
\* rejects too: its parse() raises or returns null
C11_GeneratedRejects ==
  (/\ pc = "raised"
   /\ error \in {"NoAction", "ShiftReduceConflict", "MissingSymbol", "IndexError"}
   /\ g_pc \in {"returned", "raised"})
    => ~(g_pc = "returned" /\ g_result # None)

\* C12: parse() returns null on every failure (no action, shift/reduce
\* conflict, invalid goto, missing symbol), that is, it ends by returning and
\* not by raising, and it returns the top symbol on success
C12_NullOnFailure ==
  /\ ~(pc = "raised"
       /\ error \in {"NoAction", "ShiftReduceConflict", "MissingSymbol", "IndexError"})
  /\ ~(g_pc = "raised"
       /\ g_error \in {"InvalidTerminalTransition", "InvalidNonterminalTransition"})
  /\ (pc = "returned" /\ accepted) => result = TopSymbol

\* the active rules of a dict of rule stacks: <<rule id, position in its stack>>
ActiveRuleSlots(rules) ==
  UNION { { <<r, i>> : i \in 1..Len(rules[r]) } : r \in DOMAIN rules }

\* C13: within one parse the handles given to active rules increase strictly
\* in creation order, so no two active rules that exist at the same time, in
\* the same or in different stacks, share a handle; the counter goes back to 0
\* only in reset() at the entry of parse()
C13_HandlesUnique ==
  /\ [](\A a, b \in ActiveRuleSlots(active_rules) :
          /\ active_rules[a[1]][a[2]].handle < cur_rule_handle
          /\ a # b => active_rules[a[1]][a[2]].handle # active_rules[b[1]][b[2]].handle
          /\ (a[1] = b[1] /\ a[2] < b[2])
               => active_rules[a[1]][a[2]].handle < active_rules[b[1]][b[2]].handle)
  /\ [][pc = "driving"
          => /\ cur_rule_handle' >= cur_rule_handle
             /\ \A b \in ActiveRuleSlots(active_rules') :
                  LET h == active_rules'[b[1]][b[2]].handle
                  IN \/ h >= cur_rule_handle
                     \/ \E a \in ActiveRuleSlots(active_rules) :
                          active_rules[a[1]][a[2]].handle = h]_vars

\* three active rules at once: a rule entered again inside itself, and another
C13_Witness ==
  \E r1, r2 \in DOMAIN active_rules :
    /\ r1 # r2
    /\ Len(active_rules[r1]) >= 2
    /\ Len(active_rules[r2]) >= 1

\* C14: for any one handle, the argument lists of successive completed=false
\* calls of its action grow strictly, in before_shift and in jump mode (stated
\* for the tables of the generator)
C14_PrefixGrows ==
  tabs \in GrammarTables =>
    \A i, j \in 1..Len(calls) :
      (i < j /\ ~calls[i].done /\ ~calls[j].done /\ calls[i].handle = calls[j].handle)
        => Len(calls[i].args) < Len(calls[j].args)

\* C15: the seen_tokens of an active rule never decreases from one call of
\* apply_partial_rule to the next, as long as the active rule is not popped by
\* a full reduction, in before_shift and in jump mode (stated for the tables of
\* the generator)
C15_SeenTokensGrow ==
  [][(tabs \in GrammarTables /\ pc = "driving")
       => \A a \in ActiveRuleSlots(active_rules), b \in ActiveRuleSlots(active_rules') :
            (/\ a[1] = b[1]
             /\ active_rules[a[1]][a[2]].handle = active_rules'[b[1]][b[2]].handle)
              => active_rules'[b[1]][b[2]].seen_tokens
                   >= active_rules[a[1]][a[2]].seen_tokens]_vars

\* s is the beginning of t
IsPrefixOf(s, t) ==
  /\ Len(s) <= Len(t)
  /\ \A i \in 1..Len(s) : s[i] = t[i]

\* C16: an instance of a rule sees only its own retval. Every value handed
\* to a semantic action as its previous retval is null or was returned by a
\* completed=false call of the same rule on a beginning of the very symbols
\* the action is now given, so a nested instance never receives the outer
\* instance's retval and the outer one gets its own back after the nested
\* instance is reduced; calls made for one handle are made on beginnings of
\* one another, so re-entering a rule takes a fresh handle.
C16_Isolation ==
  tabs \in GrammarTables =>
    /\ \A j \in 1..Len(calls) :
         calls[j].prev # None =>
           /\ calls[j].prev.rule = calls[j].rule
           /\ ~calls[j].prev.done
           /\ IsPrefixOf(calls[j].prev.args, calls[j].args)
    /\ \A i, j \in 1..Len(calls) :
         (i < j /\ calls[i].handle = calls[j].handle /\ calls[i].handle # -1)
           => \/ IsPrefixOf(calls[i].args, calls[j].args)
              \/ IsPrefixOf(calls[j].args, calls[i].args)

\* the parser stands before a shift whose cell of partials_rule_term names a rule
ShiftSite ==
  /\ pc = "driving"
  /\ IsShift
  /\ steps < MaxSteps
  /\ use_partials
  /\ Cell(tabs.partials_rule_term, top_state, lookahead_idx) # tabs.err

\* apply_partial_rule called at the shift site, and called again at once
ShiftPartialOnce == ShiftPartial(Self)
ShiftPartialTwice == ShiftPartial(ShiftPartialOnce)

\* the parser object of a reduce after its apply_rule, the top state then,
\* and the column of the reduced nonterminal
ReduceApplied ==
  apply_rule(Self, get_table_id(tabs.semantic_idx, rule_idx),
             PyAt(tabs.num_rhs_syms, rule_idx),
             get_table_id(tabs.nonterm_idx, PyAt(tabs.lhs_idx, rule_idx)))
ReduceTop == PyAt(ReduceApplied.states, -1)
ReduceLhsIdx == PyAt(tabs.lhs_idx, rule_idx)

\* the parser stands before a reduce after which the cell of
\* partials_rule_nonterm names a rule
JumpSite ==
  /\ pc = "driving"
  /\ IsReduce
  /\ ReduceLookupsOK
  /\ steps < MaxSteps
  /\ use_partials
  /\ Len(ReduceApplied.states) > 0
  /\ InTable(tabs.jump, ReduceTop, ReduceLhsIdx)
  /\ Len(ReduceApplied.symbols) > 0
  /\ Cell(tabs.partials_rule_nonterm, ReduceTop, ReduceLhsIdx) # tabs.err

\* apply_partial_rule called at the jump site, and called again at once
JumpPartialOnce == JumpPartial(ReduceApplied, ReduceTop, ReduceLhsIdx)
JumpPartialTwice == JumpPartial(JumpPartialOnce, ReduceTop, ReduceLhsIdx)

\* C17 (as stated): apply_partial_rule called a second time with the same
\* arguments on unchanged stacks and lookahead calls no semantic action and
\* creates no active rule, before a shift as well as before a jump.
C17_Idempotent ==
  /\ (ShiftSite /\ ShiftPartialTwice.raised = "") => ShiftPartialTwice = ShiftPartialOnce
  /\ JumpSite => JumpPartialTwice = JumpPartialOnce

\* C17 (amended): before a jump the second call changes nothing; before a
\* shift the second call finds seen_tokens = rule_len, pushes a new active
\* rule with the next handle and retval null on the first call's, and, when
\* the rule has a semantic action, calls it again on the prefix and on the
\* prefix with the lookahead. (Stated for calls whose actions return.)
C17_IdempotentBeforeJump ==
  /\ JumpSite => JumpPartialTwice = JumpPartialOnce
  /\ (ShiftSite /\ ShiftPartialTwice.raised = "") =>
       LET rule_id == get_table_id(tabs.semantic_idx,
                        Cell(tabs.partials_rule_term, top_state, lookahead_idx))
           once == ShiftPartialOnce.active_rules[rule_id]
           twice == ShiftPartialTwice.active_rules[rule_id]
       IN /\ Len(twice) = Len(once) + 1
          /\ PySlice(twice, 0, Len(once)) = once
          /\ twice[Len(twice)].handle = ShiftPartialOnce.cur_rule_handle
          /\ ShiftPartialTwice.cur_rule_handle = ShiftPartialOnce.cur_rule_handle + 1
          /\ Len(ShiftPartialTwice.calls) =
               Len(ShiftPartialOnce.calls) + (IF rule_id \in semantics THEN 2 ELSE 0)
          /\ \A i \in (Len(ShiftPartialOnce.calls) + 1)..Len(ShiftPartialTwice.calls) :
               /\ ~ShiftPartialTwice.calls[i].done
               /\ ShiftPartialTwice.calls[i].handle = ShiftPartialOnce.cur_rule_handle

\* a jump site whose first call ran the semantic action for an active rule
\* that was on its stack already
C17_Witness ==
  /\ JumpSite
  /\ Len(JumpPartialOnce.calls) > Len(ReduceApplied.calls)
  /\ JumpPartialOnce.cur_rule_handle = ReduceApplied.cur_rule_handle

DiffRun == tabs = TablesDiff /\ {101, 102} \subseteq semantics

\* C19: for the rule ident '=' expr ',' expr with its partial site at the
\* shift of ',': with partials enabled, once ',' is on the symbol stack the
\* action of the rule has been called with completed=false on
\* [ident, '=', expr]; every call of an action for the second expr (any
\* call for expr -> ident after the first expr's full reduction) comes after
\* that call; the completed=true call has all five symbols and comes after
\* every call for the two exprs. With use_partials disabled every call of
\* the rule's action is the completed=true call on the five symbols.
C19_BindsBeforeSecondExpr ==
  DiffRun =>
    /\ (use_partials /\ Len(symbols) >= 4 /\ symbols[4].id = 14) =>
         \E i \in 1..Len(calls) :
           /\ calls[i].rule = 101
           /\ ~calls[i].done
           /\ calls[i].args = SubSeq(symbols, 1, 3)
    /\ use_partials =>
         \A j \in 1..Len(calls) :
           (/\ calls[j].rule = 102
            /\ \E m \in 1..(j - 1) : calls[m].rule = 102 /\ calls[m].done) =>
             \E i \in 1..(j - 1) :
               /\ calls[i].rule = 101
               /\ ~calls[i].done
               /\ Len(calls[i].args) = 3
               /\ calls[i].args[3].id = 22
    /\ \A j \in 1..Len(calls) :
         (calls[j].rule = 101 /\ calls[j].done) =>
           /\ Len(calls[j].args) = 5
           /\ \A m \in 1..Len(calls) : calls[m].rule \in {101, 102} => m <= j
           /\ Cardinality({ m \in 1..(j - 1) : calls[m].rule = 102 /\ calls[m].done }) = 2
    /\ ~use_partials =>
         \A j \in 1..Len(calls) : calls[j].rule = 101 => calls[j].done

\* ident '=' ident ',' ident END is accepted after the rule's action has been
\* called on the prefix and on the whole right-hand side
C19_Witness ==
  /\ DiffRun
  /\ use_partials
  /\ pc = "returned"
  /\ accepted
  /\ \E i, j \in 1..Len(calls) :
       /\ i < j
       /\ calls[i].rule = 101 /\ ~calls[i].done /\ Len(calls[i].args) = 3
       /\ calls[j].rule = 101 /\ calls[j].done

\* the parser object as it is when no partial rule has ever been applied
PlainSelf == [Self EXCEPT !.active_rules = EmptyDict, !.cur_rule_handle = 0]

\* what the reduce at hand leaves when no active rule is there to pop, as in
\* a parse with use_partials off
PlainReduceApplied ==
  apply_rule(PlainSelf, get_table_id(tabs.semantic_idx, rule_idx),
             PyAt(tabs.num_rhs_syms, rule_idx),
             get_table_id(tabs.nonterm_idx, PyAt(tabs.lhs_idx, rule_idx)))
PlainReduceOK ==
  /\ Len(PlainReduceApplied.states) > 0
  /\ InTable(tabs.jump, PyAt(PlainReduceApplied.states, -1), ReduceLhsIdx)
PlainReduceStates ==
  IF PlainReduceOK
  THEN Append(PlainReduceApplied.states,
              Cell(tabs.jump, PyAt(PlainReduceApplied.states, -1), ReduceLhsIdx))
  ELSE PlainReduceApplied.states

\* the symbols of a stack without their semantic values
SymIds(syms) == [i \in 1..Len(syms) |-> [is_term |-> syms[i].is_term, id |-> syms[i].id]]

\* with use_partials off no action is called with completed=false, no active
\* rule is created, the handle counter stays 0 and every completed call gets
\* the previous retval null
NoPartialsLeaveNoTrace ==
  ~use_partials =>
    /\ active_rules = EmptyDict
    /\ cur_rule_handle = 0
    /\ \A j \in 1..Len(calls) :
         calls[j].done /\ calls[j].prev = None /\ calls[j].handle = -1

C21_SameOnRerun ==
  (prior # NoPrior /\ pc \in {"returned", "raised"}) => Outcome = prior

\* a second parse has been accepted with partial rules in use, and one has failed
C21_Witness ==
  /\ prior # NoPrior
  /\ pc = "returned"
  /\ accepted
  /\ cur_rule_handle > 1
  /\ Len(calls) > 2

C21_WitnessFailed ==
  /\ prior # NoPrior
  /\ pc = "raised"
  /\ prior.cur_rule_handle > 0
  /\ Len(symbols) > 1

\* the state stack holds the ERROR sentinel: an earlier reduce found no goto
GotoFailed == \E i \in 1..Len(states) : states[i] = tabs.err

\* what a parse has done so far: its stacks, its position in the input, its
\* active rules and the calls of semantic actions
ParseProgress ==
  <<states, symbols, input_index, lookahead, lookahead_idx, active_rules,
    cur_rule_handle, calls, accepted, result>>

\* a call on which the action raised is the last call of its parse
RaisingCallIsLast(cs) ==
  \A i \in 1..Len(cs) : Raises(cs[i].rule, cs[i].done) => i = Len(cs)
RaisingCall(cs) == \E i \in 1..Len(cs) : Raises(cs[i].rule, cs[i].done)

\* C22: the parser stops at the first error. At a loop head without an action,
\* with a conflict, with a failing table lookup or with the ERROR sentinel on
\* the state stack the next step raises and shifts, reduces and calls nothing;
\* once parse() has raised (also from get_next_lookahead or from a semantic
\* action) nothing of the parser changes until the caller starts another parse,
\* and accepted is false; the call on which an action raised is the last call
C22_StopsAtFirstError ==
  /\ [](/\ RaisingCallIsLast(calls)
        /\ RaisingCallIsLast(g_calls)
        /\ (RaisingCall(calls) /\ pc # "init") => (pc = "raised" /\ error = "SemanticError")
        /\ RaisingCall(g_calls) => (g_pc = "raised" /\ g_error = "SemanticError"))
  /\ [][ /\ (pc = "driving" /\ (IsNoAction \/ IsConflict \/ ~HeadOK \/ GotoFailed))
              => (pc' = "raised" /\ UNCHANGED ParseProgress)
         /\ (pc = "raised" /\ prior' = prior) => UNCHANGED parserVars
         /\ pc' = "raised" => ~accepted'
         /\ g_pc = "raised" => UNCHANGED genVars
         /\ g_pc' = "raised" => ~g_accepted' ]_vars

\* a parse has raised from a semantic action after a shift and a reduce, and
\* one has raised at a loop head with the ERROR sentinel on the state stack
C22_Witness ==
  /\ pc = "raised"
  /\ error = "SemanticError"
  /\ Len(symbols) > 0
  /\ Len(calls) > 1
  /\ g_pc = "raised"

C22_WitnessGoto ==
  /\ pc = "raised"
  /\ GotoFailed

\* the parse() call has come to its end
Finished == pc \in {"returned", "raised"}

C23_Loops ==
  /\ pc = "driving"
  /\ steps = MaxSteps
  /\ input_index = 0
  /\ \A i \in 1..Len(states) : states[i] = tabs.start
  /\ \A i \in 1..Len(symbols) : ~symbols[i].is_term /\ symbols[i].id = symbols[1].id

LookaheadIsCurrent ==
  /\ input_index >= 0
  /\ input_index < Len(input_tokens)
  /\ lookahead.is_term
  /\ lookahead.id = input_tokens[input_index + 1][1]
  /\ lookahead.val = (IF Len(input_tokens[input_index + 1]) > 1
                      THEN input_tokens[input_index + 1][2] ELSE None)
  /\ HasTableIndex(tabs.term_idx, lookahead.id)
  /\ lookahead_idx = get_table_index(tabs.term_idx, lookahead.id)

\* C24: a step that moves the input index to the end of the token list (at
\* parse entry on an empty list, or in a shift taken on the last token) raises
\* EndOfInput, and EndOfInput is raised only there; no token is read at an index
\* beyond the list, and at every loop head the lookahead is the token at
\* input_index
C24_EndOfInput ==
  /\ [](/\ input_index <= Len(input_tokens)
        /\ pc = "driving" => LookaheadIsCurrent
        /\ (pc = "raised" /\ error = "EndOfInput")
             => (input_end /\ input_index = Len(input_tokens)))
  /\ [][ /\ (pc \in {"init", "driving"} /\ input_index' # input_index
               /\ input_index' = Len(input_tokens') /\ input_end')
              => (pc' = "raised" /\ error' = "EndOfInput")
         /\ (pc \in {"init", "driving"} /\ input_index' # input_index)
              => (input_index' = input_index + 1 \/ pc = "init") ]_vars

\* the last token was shifted, without END or with the tables asking for more,
\* and the read past it has raised
C24_Witness ==
  /\ pc = "raised"
  /\ error = "EndOfInput"
  /\ Len(input_tokens) >= 2
  /\ Len(symbols) = Len(input_tokens)
  /\ symbols[Len(symbols)] = lookahead

\* the reduce at this loop head looks up an index that its table lacks: the
\* index of the rule, the index of its left-hand side, or, after the rule was
\* applied, the index of the partial rule of the jump site
MissingOwnIndex == pc = "driving" /\ IsReduce /\ ~ReduceLookupsOK
MissingPartialAtJump ==
  /\ JumpSite
  /\ ~HasTableId(tabs.semantic_idx,
                 Cell(tabs.partials_rule_nonterm, ReduceTop, ReduceLhsIdx))
MissingPartialAtShift ==
  /\ ShiftSite
  /\ ~HasTableId(tabs.semantic_idx,
                 Cell(tabs.partials_rule_term, top_state, lookahead_idx))

\* the step reads a token whose id term_idx lacks
FetchesUnknownToken ==
  /\ pc \in {"init", "driving"}
  /\ input_index' # input_index
  /\ input_index' < Len(input_tokens')
  /\ ~HasTableIndex(tabs.term_idx, input_tokens'[input_index' + 1][1])

\* C25 (as stated): a token id that term_idx lacks raises MissingSymbol in the
\* step that fetches it, and a rule or nonterminal index that semantic_idx or
\* nonterm_idx lacks fails the reduce before any stack is changed
C25_MissingBeforeChange ==
  /\ [](pc = "driving" => HasTableIndex(tabs.term_idx, lookahead.id))
  /\ [][ /\ FetchesUnknownToken => (pc' = "raised" /\ error' = "MissingSymbol")
         /\ (MissingOwnIndex \/ MissingPartialAtJump)
              => (pc' = "raised" /\ UNCHANGED <<states, symbols>>) ]_vars

\* C25 (amended): as stated for the token id and for the index of the reduced
\* rule and of its left-hand side; the index of a partial rule that
\* semantic_idx lacks fails a shift before anything is pushed, and fails a
\* reduce after the rule was applied: the right-hand side is popped from both
\* stacks and the nonterminal is pushed, the goto state is not
C25_MissingSymbol ==
  /\ [](pc = "driving" => HasTableIndex(tabs.term_idx, lookahead.id))
  /\ [][ /\ FetchesUnknownToken => (pc' = "raised" /\ error' = "MissingSymbol")
         /\ (MissingOwnIndex \/ MissingPartialAtShift)
              => (pc' = "raised" /\ error' = "IndexError"
                  /\ UNCHANGED <<states, symbols, active_rules, calls, input_index>>)
         /\ MissingPartialAtJump
              => (/\ pc' = "raised"
                  /\ error' = "IndexError"
                  /\ states' = ReduceApplied.states
                  /\ symbols' = ReduceApplied.symbols
                  /\ calls' = ReduceApplied.calls) ]_vars

\* a token with an unknown id was fetched in a shift; a reduce has failed on the
\* index of its rule; a reduce has failed on the partial rule of its jump site
C25_Witness ==
  /\ pc = "raised"
  /\ error = "MissingSymbol"
  /\ Len(symbols) >= 1
  /\ symbols[Len(symbols)].is_term
  /\ ~HasTableIndex(tabs.term_idx, lookahead.id)

C25_WitnessOwnIndex ==
  /\ pc = "raised"
  /\ error = "IndexError"
  /\ Len(states) >= 1
  /\ IsReduce
  /\ ~ReduceLookupsOK
  /\ Len(symbols) >= 1

C25_WitnessJump ==
  /\ pc = "raised"
  /\ error = "IndexError"
  /\ tabs \in DamagedIndex(TablesSum)
  /\ Len(symbols) >= 1
  /\ ~symbols[Len(symbols)].is_term
  /\ Len(states) = Len(symbols)

C26_WitnessRerun ==
  /\ prior # NoPrior
  /\ pc = "returned"
  /\ prior.steps >= 5
  /\ Len(calls) >= 3
  /\ g_pc = "returned"

\* C27: a reduce by rule r with k = num_rhs[r] on stacks that hold k entries,
\* whose action does not raise, removes the last k symbols and the last k
\* states, hands the removed symbols to the action in their order from bottom
\* to top, and pushes one nonterminal symbol with the id of the rule's left-hand
\* side; the entries below the removed ones are unchanged, and the only state
\* pushed is the goto state
C27_ReducePopsAndPushes ==
  [][(pc = "driving" /\ IsReduce /\ ReduceLookupsOK /\ steps' = steps + 1)
       => LET k == PyAt(tabs.num_rhs_syms, rule_idx)
              rule_id == get_table_id(tabs.semantic_idx, rule_idx)
              lhs_id == get_table_id(tabs.nonterm_idx, PyAt(tabs.lhs_idx, rule_idx))
              n == Len(symbols)
              m == Len(states)
          IN (k <= n /\ k <= m /\ ~(rule_id \in semantics /\ Raises(rule_id, TRUE)))
               => /\ Len(symbols') = n - k + 1
                  /\ SubSeq(symbols', 1, n - k) = SubSeq(symbols, 1, n - k)
                  /\ ~symbols'[n - k + 1].is_term
                  /\ symbols'[n - k + 1].id = lhs_id
                  /\ Len(states') \in {m - k, m - k + 1}
                  /\ SubSeq(states', 1, m - k) = SubSeq(states, 1, m - k)
                  /\ Len(states') = m - k + 1
                       => (/\ m - k >= 1
                           /\ states'[m - k + 1] = Cell(tabs.jump, states[m - k],
                                                        PyAt(tabs.lhs_idx, rule_idx)))
                  /\ rule_id \in semantics
                       => /\ Len(calls') > Len(calls)
                          /\ calls'[Len(calls) + 1].rule = rule_id
                          /\ calls'[Len(calls) + 1].done
                          /\ calls'[Len(calls) + 1].args = SubSeq(symbols, n - k + 1, n)]_vars

\* a rule of three symbols has been reduced above a symbol that stays, and its
\* action was called
C27_Witness ==
  /\ pc = "driving"
  /\ Len(symbols) >= 2
  /\ Len(states) = Len(symbols) + 1
  /\ ~symbols[Len(symbols)].is_term
  /\ symbols[Len(symbols)].val.k = "ret"
  /\ symbols[Len(symbols)].val.done
  /\ Len(symbols[Len(symbols)].val.args) = 3

\* the stack of active rules of rule id r, empty when the rule has none
ActiveRulesOf(r) == IF r \in DOMAIN active_rules THEN active_rules[r] ELSE <<>>

\* C28: at a reduce by rule r, prev_retval is the retval of the top active rule
\* of r, of which exactly that one is popped, or null when r has no active
\* rule; with an action for r the action is called on (args, completed = true,
\* prev_retval) and the nonterminal's value is what it returns, without an
\* action the value is prev_retval
C28_ReducedValue ==
  /\ []((pc = "driving" /\ IsReduce /\ ReduceLookupsOK)
          => LET rule_id == get_table_id(tabs.semantic_idx, rule_idx)
                 rulestack == ActiveRulesOf(rule_id)
             IN ReduceApplied.active_rules =
                  (IF Len(rulestack) > 0
                   THEN [active_rules EXCEPT
                           ![rule_id] = SubSeq(rulestack, 1, Len(rulestack) - 1)]
                   ELSE active_rules))
  /\ [][(pc = "driving" /\ IsReduce /\ ReduceLookupsOK /\ steps' = steps + 1)
          => LET rule_id == get_table_id(tabs.semantic_idx, rule_idx)
                 k == PyAt(tabs.num_rhs_syms, rule_idx)
                 n == Len(symbols)
                 args == PySlice(symbols, n - k, n)
                 rulestack == ActiveRulesOf(rule_id)
                 prev_retval == IF Len(rulestack) > 0
                                THEN rulestack[Len(rulestack)].retval ELSE None
                 at == Len(PySlice(symbols, 0, n - k)) + 1
             IN IF rule_id \in semantics
                THEN /\ Len(calls') > Len(calls)
                     /\ SemanticCalls(calls')[Len(calls) + 1] =
                          SemanticCalls(<<CallRec(rule_id, args, TRUE, prev_retval, 0)>>)[1]
                     /\ ~Raises(rule_id, TRUE)
                          => symbols'[at].val = SemCall(rule_id, args, TRUE, prev_retval)
                ELSE symbols'[at].val = prev_retval]_vars

\* a reduce has handed the result of the rule's partial calls to the action and
\* pushed what the action returned
C28_Witness ==
  /\ pc = "driving"
  /\ symbols # <<>>
  /\ ~symbols[Len(symbols)].is_term
  /\ symbols[Len(symbols)].val.k = "ret"
  /\ symbols[Len(symbols)].val.done
  /\ symbols[Len(symbols)].val.prev.k = "ret"
  /\ ~symbols[Len(symbols)].val.prev.done

\* a rule without an action was reduced: its nonterminal has the value null
C28_WitnessNoAction ==
  /\ pc = "driving"
  /\ semantics = {}
  /\ symbols # <<>>
  /\ ~symbols[Len(symbols)].is_term
  /\ symbols[Len(symbols)].val = None

\* the written parser stands before a shift case that applies a partial rule
GShiftSite ==
  /\ g_pc = "running" /\ g_stack # <<>> /\ frame.at = "match"
  /\ g_steps < MaxSteps
  /\ TermCase(tabs, frame.state, g_lookahead.id).kind = "shift"
  /\ HasRoutine(tabs, Cell(tabs.shift, frame.state,
                           TermCase(tabs, frame.state, g_lookahead.id).col))
  /\ use_partials
  /\ Cell(tabs.partials_rule_term, frame.state,
          TermCase(tabs, frame.state, g_lookahead.id).col) # tabs.err

\* the arguments a partial action of match length m may be handed before the
\* token la is pushed onto the stack syms: the top m symbols, or those and la
ArgsBeforePush(syms, m, la) ==
  LET A == PySlice(syms, Len(syms) - m, Len(syms))
  IN {A, Append(A, la)}

\* the calls cs1 holds beyond cs0 are partial ones handed arguments taken
\* before the push, the last of them with la appended unless it raised
CalledBeforePush(cs0, cs1, syms, m, la, err) ==
  /\ Len(cs1) >= Len(cs0)
  /\ \A j \in (Len(cs0) + 1)..Len(cs1) :
       /\ ~cs1[j].done
       /\ cs1[j].args \in ArgsBeforePush(syms, m, la)
  /\ (Len(cs1) > Len(cs0) /\ err # "SemanticError")
       => cs1[Len(cs1)].args = Append(PySlice(syms, Len(syms) - m, Len(syms)), la)

\* C29: a shift whose cell of partials_rule_term names a rule applies the
\* partial rule before it pushes: the partial actions are handed the top
\* symbols of the stack as it was before the shift, the last of them with the
\* lookahead about to be shifted appended; an action that raises leaves the
\* stacks and the input index as they were; otherwise the shift then pushes
\* that lookahead and the new state and advances the input index by one.  The
\* same holds for a shift case of the written parser.
C29_PartialBeforePush ==
  /\ [][ (ShiftSite /\ steps' = steps + 1) =>
           /\ CalledBeforePush(calls, calls', symbols,
                               Cell(tabs.partials_matchlen_term, top_state, lookahead_idx),
                               lookahead, error')
           /\ \/ /\ pc' = "raised"
                 /\ UNCHANGED <<states, symbols, input_index, lookahead>>
              \/ /\ error' # "SemanticError"
                 /\ symbols' = Append(symbols, lookahead)
                 /\ states' = Append(states, new_state)
                 /\ input_index' = input_index + 1 ]_vars
  /\ [][ (GShiftSite /\ g_steps' = g_steps + 1) =>
           /\ CalledBeforePush(g_calls, g_calls', g_symbols,
                               Cell(tabs.partials_matchlen_term, frame.state,
                                    TermCase(tabs, frame.state, g_lookahead.id).col),
                               g_lookahead, g_error')
           /\ \/ /\ g_pc' = "raised"
                 /\ UNCHANGED <<g_symbols, g_input_index, g_lookahead>>
              \/ /\ g_error' # "SemanticError"
                 /\ g_symbols' = Append(g_symbols, g_lookahead)
                 /\ g_input_index' = g_input_index + 1 ]_vars

\* a shift has applied a partial rule to a stack that was not empty and has
\* then pushed the token the action saw last
C29_Witness ==
  /\ pc = "driving"
  /\ calls # <<>> /\ symbols # <<>>
  /\ ~calls[Len(calls)].done
  /\ Len(calls[Len(calls)].args) >= 2
  /\ symbols[Len(symbols)].is_term
  /\ calls[Len(calls)].args[Len(calls[Len(calls)].args)] = symbols[Len(symbols)]
  /\ Len(calls) >= 2
  /\ calls[Len(calls) - 1].args = SubSeq(symbols, Len(symbols) - Len(calls[Len(calls)].args) + 1, Len(symbols) - 1)

\* the same in the written parser
C29_WitnessGen ==
  /\ g_pc = "running"
  /\ g_calls # <<>> /\ g_symbols # <<>>
  /\ ~g_calls[Len(g_calls)].done
  /\ Len(g_calls[Len(g_calls)].args) >= 2
  /\ g_symbols[Len(g_symbols)].is_term
  /\ g_calls[Len(g_calls)].args[Len(g_calls[Len(g_calls)].args)] = g_symbols[Len(g_symbols)]

\* a partial action raised at a shift and the shift pushed nothing: the parser
\* still stands at the shift site, the lookahead unshifted
C29_WitnessRaised ==
  /\ pc = "raised" /\ error = "SemanticError"
  /\ calls # <<>> /\ ~calls[Len(calls)].done
  /\ IsShift /\ use_partials
  /\ Cell(tabs.partials_rule_term, top_state, lookahead_idx) # tabs.err
  /\ Len(states) = Len(symbols) + 1
  /\ symbols # <<>>
  /\ calls[Len(calls)].args \in
       ArgsBeforePush(symbols, Cell(tabs.partials_matchlen_term, top_state, lookahead_idx),
                      lookahead)
  /\ lookahead \notin { symbols[i] : i \in 1..Len(symbols) }

\* the reduce the parser stands before calls a partial action at its jump site
JumpPartialRuns ==
  /\ JumpSite
  /\ ReduceApplied.raised = ""
  /\ Len(JumpPartialOnce.calls) > Len(ReduceApplied.calls)

\* the partial action of a jump site runs on the parser object as apply_rule
\* left it: with the goto state pushed, the state stack would be one longer
\* than the symbol stack
C30_LengthsDuringPartial ==
  JumpPartialRuns => Len(JumpPartialOnce.states) = Len(JumpPartialOnce.symbols) + 1

\* a reduce whose goto entry is the error value calls no partial action
C30_NoPartialOnErrorGoto ==
  JumpPartialRuns => Cell(tabs.jump, ReduceTop, ReduceLhsIdx) # tabs.err

\* C30 (as stated): the partial rule of a reduce is applied only after the
\* reduced nonterminal and the goto state have both been pushed, so the state
\* stack is one longer than the symbol stack whenever its action runs, and no
\* partial action runs for a reduce whose goto entry is the error value.
C30_PartialAfterGoto ==
  /\ C30_LengthsDuringPartial
  /\ C30_NoPartialOnErrorGoto

\* what the reduce branch does: the partial action runs with the nonterminal
\* pushed and the goto state not yet pushed, whatever the goto entry is; the
\* entry is pushed once the action has returned
C30_PartialBeforeGoto ==
  [][ (JumpPartialRuns /\ steps' = steps + 1 /\ Len(states) = Len(symbols) + 1) =>
        /\ PyAt(tabs.num_rhs_syms, rule_idx) \in 0..Len(symbols)
             => Len(JumpPartialOnce.states) = Len(JumpPartialOnce.symbols)
        /\ calls' = JumpPartialOnce.calls
        /\ pc' = "raised" => states' = ReduceApplied.states
        /\ pc' # "raised" =>
             states' = Append(ReduceApplied.states, Cell(tabs.jump, ReduceTop, ReduceLhsIdx)) ]_vars

\* a partial action has run at the jump site of a reduce whose goto entry is
\* the error value, and the entry has been pushed after it
C30_WitnessErrorGoto ==
  /\ pc = "driving"
  /\ calls # <<>> /\ ~calls[Len(calls)].done
  /\ symbols # <<>> /\ ~symbols[Len(symbols)].is_term
  /\ calls[Len(calls)].args[Len(calls[Len(calls)].args)] = symbols[Len(symbols)]
  /\ states[Len(states)] = tabs.err

\* the stack of active rules of rule_id in the parser object P (empty: none)
StackOf(P, rule_id) ==
  IF rule_id \in DOMAIN P.active_rules THEN P.active_rules[rule_id] ELSE <<>>

\* the stacks of the rules other than rule_id are in Q what they are in P
OthersKept(P, Q, rule_id) ==
  /\ DOMAIN Q.active_rules = DOMAIN P.active_rules \cup {rule_id}
  /\ \A r \in DOMAIN P.active_rules \ {rule_id} : Q.active_rules[r] = P.active_rules[r]

\* what apply_partial_rule(rule_id, rule_len, before_shift) has made of the
\* stack of rule_id between the parser objects P and Q, eff being rule_len, or
\* rule_len + 1 before a shift
PushesOrUpdates(P, Q, rule_id, eff, before_shift) ==
  LET old == StackOf(P, rule_id)
      new == StackOf(Q, rule_id)
      pushes == old = <<>> \/ (before_shift /\ old[Len(old)].seen_tokens >= eff)
  IN /\ OthersKept(P, Q, rule_id)
     /\ (Len(new) = Len(old) + 1) <=> pushes
     /\ pushes =>
          /\ SubSeq(new, 1, Len(old)) = old
          /\ new[Len(new)].seen_tokens = eff
          /\ new[Len(new)].handle = P.cur_rule_handle
          /\ Q.cur_rule_handle = P.cur_rule_handle + 1
          /\ rule_id \notin semantics => new[Len(new)].retval = None
          /\ Len(Q.calls) > Len(P.calls) => Q.calls[Len(P.calls) + 1].prev = None
     /\ ~pushes =>
          /\ Len(new) = Len(old)
          /\ \A i \in 1..(Len(old) - 1) : new[i] = old[i]
          /\ new[Len(new)].seen_tokens = eff
          /\ new[Len(new)].handle = old[Len(old)].handle
          /\ Q.cur_rule_handle = P.cur_rule_handle
          /\ rule_id \notin semantics =>
               new[Len(new)] = [old[Len(old)] EXCEPT !.seen_tokens = eff]
          /\ (~before_shift /\ old[Len(old)].seen_tokens = eff) => Q = P

\* the rule and the match length of the partial entry of the shift at hand,
\* and of the jump after the reduce at hand
ShiftPartialId ==
  get_table_id(tabs.semantic_idx, Cell(tabs.partials_rule_term, top_state, lookahead_idx))
ShiftPartialLen == Cell(tabs.partials_matchlen_term, top_state, lookahead_idx)
JumpPartialId ==
  get_table_id(tabs.semantic_idx, Cell(tabs.partials_rule_nonterm, ReduceTop, ReduceLhsIdx))
JumpPartialLen == Cell(tabs.partials_matchlen_nonterm, ReduceTop, ReduceLhsIdx)
ShiftPartialKnown ==
  HasTableId(tabs.semantic_idx, Cell(tabs.partials_rule_term, top_state, lookahead_idx))
JumpPartialKnown ==
  HasTableId(tabs.semantic_idx, Cell(tabs.partials_rule_nonterm, ReduceTop, ReduceLhsIdx))

\* C31: apply_partial_rule(rule_id, rule_len, before_shift) pushes a new
\* active rule on rule_id's stack exactly when the stack is missing or empty,
\* or before_shift holds and the top's seen_tokens is at least rule_len + 1;
\* the new active rule has seen_tokens rule_len (+ 1 before a shift), the
\* handle the counter held, which is advanced by one, and retval null until an
\* action is called for it. Otherwise the depth and the rules below the top are
\* kept, the counter is kept and the top's seen_tokens becomes that length;
\* nothing at all changes before a jump whose top has that length already.
C31_PushesNewActiveRule ==
  /\ (ShiftSite /\ ShiftPartialKnown) =>
       PushesOrUpdates(Self, ShiftPartialOnce, ShiftPartialId, ShiftPartialLen + 1, TRUE)
  /\ (JumpSite /\ JumpPartialKnown /\ ReduceApplied.raised = "") =>
       PushesOrUpdates(ReduceApplied, JumpPartialOnce, JumpPartialId, JumpPartialLen, FALSE)

\* a shift site at which the top active rule of the rule has seen all the
\* tokens of the site already: the rule is entered again
C31_Witness ==
  /\ ShiftSite /\ ShiftPartialKnown
  /\ StackOf(Self, ShiftPartialId) # <<>>
  /\ StackOf(Self, ShiftPartialId)[Len(StackOf(Self, ShiftPartialId))].seen_tokens
       >= ShiftPartialLen + 1
  /\ Len(StackOf(ShiftPartialOnce, ShiftPartialId)) = Len(StackOf(Self, ShiftPartialId)) + 1

\* a shift site that continues the top active rule, and a jump site that does
C31_WitnessContinues ==
  /\ ShiftSite /\ ShiftPartialKnown
  /\ StackOf(Self, ShiftPartialId) # <<>>
  /\ StackOf(Self, ShiftPartialId)[Len(StackOf(Self, ShiftPartialId))].seen_tokens
       < ShiftPartialLen + 1
  /\ Len(StackOf(ShiftPartialOnce, ShiftPartialId)) = Len(StackOf(Self, ShiftPartialId))

C31_WitnessJump ==
  /\ JumpSite /\ JumpPartialKnown /\ ReduceApplied.raised = ""
  /\ StackOf(ReduceApplied, JumpPartialId) # <<>>
  /\ JumpPartialOnce # ReduceApplied
  /\ Len(StackOf(JumpPartialOnce, JumpPartialId)) = Len(StackOf(ReduceApplied, JumpPartialId))

\* the reduce at hand comes to a jump site whose rule has a top active rule
\* that has seen the site's match length already
JumpAlreadySeen ==
  /\ JumpSite /\ JumpPartialKnown /\ ReduceApplied.raised = ""
  /\ StackOf(ReduceApplied, JumpPartialId) # <<>>
  /\ StackOf(ReduceApplied, JumpPartialId)[Len(StackOf(ReduceApplied, JumpPartialId))].seen_tokens
       = JumpPartialLen

\* C32: apply_partial_rule before a jump, for a rule whose top active rule has
\* seen_tokens equal to the rule length already, does nothing: the parser
\* object it returns is the one it was given, and the reduce step that makes
\* the call leaves the calls, the active rules and the handle counter as
\* apply_rule left them.
C32_AlreadySeenDoesNothing ==
  /\ [](JumpAlreadySeen => JumpPartialOnce = ReduceApplied)
  /\ [][(JumpAlreadySeen /\ steps' = steps + 1) =>
          /\ calls' = ReduceApplied.calls
          /\ active_rules' = ReduceApplied.active_rules
          /\ cur_rule_handle' = ReduceApplied.cur_rule_handle]_vars

\* a reduce has passed such a jump site, with an action for the rule, and has
\* called nothing after the action of the reduced rule
C32_Witness ==
  /\ pc = "driving"
  /\ calls # <<>> /\ calls[Len(calls)].done
  /\ symbols # <<>> /\ ~symbols[Len(symbols)].is_term
  /\ Len(states) >= 2
  /\ InTable(tabs.partials_rule_nonterm, states[Len(states) - 1],
             get_table_index(tabs.nonterm_idx, symbols[Len(symbols)].id))
  /\ Cell(tabs.partials_rule_nonterm, states[Len(states) - 1],
          get_table_index(tabs.nonterm_idx, symbols[Len(symbols)].id)) # tabs.err
  /\ use_partials
  /\ LET pidx == Cell(tabs.partials_rule_nonterm, states[Len(states) - 1],
                      get_table_index(tabs.nonterm_idx, symbols[Len(symbols)].id))
         r == get_table_id(tabs.semantic_idx, pidx)
     IN /\ HasTableId(tabs.semantic_idx, pidx)
        /\ r \in semantics
        /\ StackOf(Self, r) # <<>>
        /\ StackOf(Self, r)[Len(StackOf(Self, r))].seen_tokens =
             Cell(tabs.partials_matchlen_nonterm, states[Len(states) - 1],
                  get_table_index(tabs.nonterm_idx, symbols[Len(symbols)].id))

\* the parser stands before such a reduce, the rule having an action
C32_WitnessBefore == JumpAlreadySeen /\ JumpPartialId \in semantics

\* the calls apply_partial_rule(rule_id, arg_len, before_shift) is to make
\* between the parser objects P and Q when the rule has an action and none of
\* the calls raises: one on the top arg_len symbols unless the site is a shift
\* site whose bare prefix the active rule has seen, and at a shift site one
\* more on those symbols and the lookahead, handed the value of the first
PartialCalls(P, rule_id, arg_len, before_shift) ==
  LET old == StackOf(P, rule_id)
      eff == IF before_shift THEN arg_len + 1 ELSE arg_len
      pushes == old = <<>> \/ (before_shift /\ old[Len(old)].seen_tokens >= eff)
      prev_seen == IF pushes THEN -1 ELSE old[Len(old)].seen_tokens
      prev0 == IF pushes THEN None ELSE old[Len(old)].retval
      handle == IF pushes THEN P.cur_rule_handle ELSE old[Len(old)].handle
      args == PySlice(P.symbols, Len(P.symbols) - arg_len, Len(P.symbols))
      on_prefix == CallRec(rule_id, args, FALSE, prev0, handle)
      with_la(prev) == CallRec(rule_id, Append(args, P.lookahead), FALSE, prev, handle)
  IN IF ~before_shift /\ ~pushes /\ prev_seen = eff THEN <<>>
     ELSE IF ~before_shift THEN <<on_prefix>>
     ELSE IF prev_seen < arg_len
          THEN <<on_prefix, with_la(SemCall(rule_id, args, FALSE, prev0))>>
          ELSE <<with_la(prev0)>>

\* Q adds to the calls of P the calls of PartialCalls, and the top active rule
\* of the rule holds the value of the last of them
CallsAsClaimed(P, Q, rule_id, arg_len, before_shift) ==
  LET cs == PartialCalls(P, rule_id, arg_len, before_shift)
      new == StackOf(Q, rule_id)
      last == cs[Len(cs)]
  IN /\ Q.calls = P.calls \o cs
     /\ cs # <<>> =>
          new[Len(new)].retval = SemCall(rule_id, last.args, FALSE, last.prev)

\* C33: when the rule has an action and the site is not seen already,
\* apply_partial_rule calls the action with completed=false on the top arg_len
\* symbols exactly when before_shift is false or the seen_tokens found (-1 for
\* a new active rule) is below arg_len, and before a shift calls it once more
\* on those symbols and the lookahead with the value the first call returned;
\* the active rule keeps the value of the last call. Without an action nothing
\* is called. The same holds for the apply_partial_rule of the written parser.
C33_PartialCalls ==
  /\ (ShiftSite /\ ShiftPartialKnown /\ ShiftPartialOnce.raised = "") =>
       IF ShiftPartialId \in semantics
       THEN CallsAsClaimed(Self, ShiftPartialOnce, ShiftPartialId, ShiftPartialLen, TRUE)
       ELSE ShiftPartialOnce.calls = calls
  /\ (JumpSite /\ JumpPartialKnown /\ JumpPartialOnce.raised = "") =>
       IF JumpPartialId \in semantics
       THEN CallsAsClaimed(ReduceApplied, JumpPartialOnce, JumpPartialId,
                           JumpPartialLen, FALSE)
       ELSE JumpPartialOnce.calls = ReduceApplied.calls
  /\ GShiftSite =>
       LET col == TermCase(tabs, frame.state, g_lookahead.id).col
           pidx == Cell(tabs.partials_rule_term, frame.state, col)
           rule_id == get_table_id(tabs.semantic_idx, pidx)
           Q == GenShiftPartial(tabs, frame.state, col, GSelf)
       IN (HasTableId(tabs.semantic_idx, pidx) /\ Q.raised = "") =>
            IF rule_id \in semantics
            THEN CallsAsClaimed(GSelf, Q, rule_id,
                                Cell(tabs.partials_matchlen_term, frame.state, col), TRUE)
            ELSE Q.calls = g_calls

\* a shift site that calls the action once only: the active rule has seen the
\* bare prefix at the jump before
C33_Witness ==
  /\ ShiftSite /\ ShiftPartialKnown /\ ShiftPartialOnce.raised = ""
  /\ ShiftPartialId \in semantics
  /\ Len(ShiftPartialOnce.calls) = Len(calls) + 1
  /\ tabs \in GrammarTables

\* a shift site that calls it twice, in both parsers
C33_WitnessTwice ==
  /\ ShiftSite /\ ShiftPartialKnown /\ ShiftPartialOnce.raised = ""
  /\ ShiftPartialId \in semantics
  /\ Len(ShiftPartialOnce.calls) = Len(calls) + 2
  /\ symbols # <<>>

C33_WitnessGen ==
  /\ GShiftSite
  /\ Len(GenShiftPartial(tabs, frame.state, TermCase(tabs, frame.state, g_lookahead.id).col,
                         GSelf).calls) = Len(g_calls) + 1

\* the written parser stands before a reduce case, a routine is about to
\* return, a routine is about to call the routine of a goto state
GReduceSite ==
  /\ g_pc = "running" /\ g_stack # <<>> /\ frame.at = "match"
  /\ g_steps < MaxSteps
  /\ TermCase(tabs, frame.state, g_lookahead.id).kind = "reduce"
GReducedLen ==
  PyAt(tabs.num_rhs_syms,
       Cell(tabs.reduce, frame.state, TermCase(tabs, frame.state, g_lookahead.id).col))
GAtLoop == g_pc = "running" /\ g_stack # <<>> /\ frame.at = "loop"

\* the state the tables lead to from state s on the symbol sym
Transition(s, sym) ==
  IF sym.is_term
  THEN Cell(tabs.shift, s, get_table_index(tabs.term_idx, sym.id))
  ELSE Cell(tabs.jump, s, get_table_index(tabs.nonterm_idx, sym.id))

\* the routines on the call stack that are not about to return are those of
\* the states that the tables lead to on the symbols of the symbol stack, from
\* the start state on: the state stack of the table-driven parser on the same
\* symbols
RoutinesAreStates ==
  /\ g_stack[1].state = tabs.start
  /\ \A i \in 1..(Len(g_stack) - g_dist_to_jump - 1) :
       g_stack[i + 1].state = Transition(g_stack[i].state, g_symbols[i])

\* C34: in the written parser apply_rule with num_rhs = k sets dist_to_jump to
\* k; a routine that returns decrements it by one, and nothing else changes it
\* within a parse; a routine calls the routine of a goto state only with
\* dist_to_jump = 0. So between a reduce by a rule of length k and the goto
\* exactly k routines return: with generator tables, while nothing is
\* accepted, the call stack less dist_to_jump is as deep as the symbol stack
\* when a routine is in its jump loop, the goto is called from the routine of
\* the state that the tables reach on the symbols below the reduced
\* nonterminal (the top of the table-driven parser's state stack after its
\* pop), and it calls the routine of that state's jump entry.
C34_DistToJump ==
  /\ []((tabs \in GrammarTables /\ pc = "driving") =>
          /\ states[1] = tabs.start
          /\ \A i \in 1..(Len(states) - 1) :
               states[i + 1] = Transition(states[i], symbols[i]))
  /\ []((tabs \in GrammarTables /\ g_pc = "running" /\ g_stack # <<>> /\ ~g_accepted) =>
          /\ RoutinesAreStates
          /\ frame.at = "match" =>
               g_dist_to_jump = 0 /\ Len(g_stack) = Len(g_symbols) + 1
          /\ frame.at = "loop" =>
               g_dist_to_jump >= 0 /\ Len(g_stack) - g_dist_to_jump = Len(g_symbols))
  /\ [][/\ (GReduceSite /\ g_steps' = g_steps + 1) => g_dist_to_jump' = GReducedLen
        /\ (GAtLoop /\ Len(g_stack') = Len(g_stack) - 1)
             => g_dist_to_jump' = g_dist_to_jump - 1
        /\ (GAtLoop /\ Len(g_stack') = Len(g_stack) + 1)
             => /\ g_dist_to_jump = 0 /\ g_dist_to_jump' = 0
                /\ ~PyAt(g_symbols, -1).is_term
                /\ g_stack'[Len(g_stack')].state = Transition(frame.state, PyAt(g_symbols, -1))
                /\ tabs \in GrammarTables => Len(g_stack) = Len(g_symbols)
        /\ (g_pc = "running" /\ g_dist_to_jump' # g_dist_to_jump)
             => \/ GReduceSite /\ g_steps' = g_steps + 1
                \/ GAtLoop /\ Len(g_stack') = Len(g_stack) - 1]_vars

\* a routine has called the routine of a goto state three frames deep, after
\* a reduce by a rule of length 3 and three returns
C34_Witness ==
  /\ g_pc = "running" /\ Len(g_stack) >= 2
  /\ frame.at = "match"
  /\ g_symbols # <<>> /\ ~PyAt(g_symbols, -1).is_term
  /\ g_calls # <<>> /\ g_calls[Len(g_calls)].done /\ Len(g_calls[Len(g_calls)].args) = 3
  /\ g_dist_to_jump = 0

\* a routine is on its way back after a reduce, two returns to go
C34_WitnessReturning == GAtLoop /\ g_dist_to_jump = 2 /\ ~g_accepted

\* a reduce by a rule of length 0 and the goto from the same routine
C34_WitnessEmptyRule ==
  /\ g_pc = "running" /\ Len(g_stack) >= 2
  /\ frame.at = "match"
  /\ g_symbols # <<>> /\ ~PyAt(g_symbols, -1).is_term
  /\ g_calls # <<>> /\ g_calls[Len(g_calls)].done /\ g_calls[Len(g_calls)].args = <<>>

\* the partial rule that the case of nonterminal column ni of state_s calls
\* before the goto routine, and its match length: the table cell is read in
\* the column of the nonterminal partials_lhs_nonterm[s][ni]
GenJumpCalls(T, s, ni) ==
  LET lhs_id == Cell(T.partials_lhs_nonterm, s, ni)
  IN /\ lhs_id # T.err
     /\ Cell(T.partials_rule_nonterm, s, get_table_index(T.nonterm_idx, lhs_id)) # T.err
GenJumpRuleId(T, s, ni) ==
  LET lhs_idx == get_table_index(T.nonterm_idx, Cell(T.partials_lhs_nonterm, s, ni))
  IN get_table_id(T.semantic_idx, Cell(T.partials_rule_nonterm, s, lhs_idx))
GenJumpMatchLen(T, s, ni) ==
  LET lhs_idx == get_table_index(T.nonterm_idx, Cell(T.partials_lhs_nonterm, s, ni))
  IN Cell(T.partials_matchlen_nonterm, s, lhs_idx)

\* the partial rule that Parser.parse applies after a reduce to nonterminal
\* column ni with state s on top
ParseJumpCalls(T, s, ni) == Cell(T.partials_rule_nonterm, s, ni) # T.err
ParseJumpRuleId(T, s, ni) ==
  get_table_id(T.semantic_idx, Cell(T.partials_rule_nonterm, s, ni))
ParseJumpMatchLen(T, s, ni) == Cell(T.partials_matchlen_nonterm, s, ni)

\* a routine of the written parser is about to call the routine of a goto state
GJumpSite ==
  /\ GAtLoop /\ g_steps < MaxSteps /\ InJumpLoop
  /\ JumpColumn(tabs, frame.state, PyAt(g_symbols, -1).id) # -1
GJumpCol == JumpColumn(tabs, frame.state, PyAt(g_symbols, -1).id)

\* C35 (as stated): with the tables of a grammar, the routine state_s calls
\* apply_partial_rule(rule_id, match_len, False) before the routine of
\* jump[s][n] exactly when partials_rule_nonterm[s][n] is not the error
\* value, with the rule id and the match length that the table-driven parser
\* uses after a reduce to n with s on top.
C35_SamePartialAtJump ==
  (tabs \in GrammarTables /\ GJumpSite) =>
     /\ GenJumpCalls(tabs, frame.state, GJumpCol)
          <=> ParseJumpCalls(tabs, frame.state, GJumpCol)
     /\ ParseJumpCalls(tabs, frame.state, GJumpCol) =>
          /\ GenJumpRuleId(tabs, frame.state, GJumpCol)
               = ParseJumpRuleId(tabs, frame.state, GJumpCol)
          /\ GenJumpMatchLen(tabs, frame.state, GJumpCol)
               = ParseJumpMatchLen(tabs, frame.state, GJumpCol)

\* what the written routine does at that place: its jump case reads the
\* partial rule in the column of partials_lhs_nonterm[s][n], so the call that
\* the table-driven parser makes there can be missing
C35_WrittenJumpCase ==
  [][GJumpSite =>
       /\ g_calls' = GenJumpPartial(tabs, frame.state, GJumpCol, GSelf).calls
       /\ (use_partials /\ GenJumpCalls(tabs, frame.state, GJumpCol)) =>
            g_active_rules' =
              g_apply_partial_rule(GSelf, GenJumpRuleId(tabs, frame.state, GJumpCol),
                                   GenJumpMatchLen(tabs, frame.state, GJumpCol),
                                   FALSE).active_rules
       /\ ~(use_partials /\ GenJumpCalls(tabs, frame.state, GJumpCol)) =>
            UNCHANGED <<g_calls, g_active_rules>>]_vars

\* the table-driven parser calls a partial rule at a jump where the written
\* routine of the same state calls none
C35_WitnessMissingCall ==
  /\ tabs \in GrammarTables /\ GJumpSite /\ use_partials
  /\ ParseJumpCalls(tabs, frame.state, GJumpCol)
  /\ ~GenJumpCalls(tabs, frame.state, GJumpCol)

\* the stacks, the input index and the lookahead of the parser object Q are
\* those of the parser object P
StacksKept(P, Q) ==
  /\ Q.symbols = P.symbols
  /\ Q.states = P.states
  /\ Q.input_index = P.input_index
  /\ Q.lookahead = P.lookahead

\* C36: apply_partial_rule never changes the symbol stack, the state stack,
\* the input index or the lookahead; the arguments handed to the action, the
\* appended lookahead included, are a list of their own. Whatever rule id,
\* match length and before_shift it is called with during a parse, the
\* stacks after the call are those before it; the shift that follows the
\* call pushes exactly the lookahead and the new state onto the stacks as
\* they were, the goto after a reduce finds the stacks as apply_rule left
\* them, and a raising partial action leaves both stacks untouched.
C36_PartialKeepsStacks ==
  /\ [](pc = "driving" =>
          \A rule_id \in RuleIds(tabs), len_arg \in 0..MaxLen, before_shift \in BOOLEAN :
             StacksKept(Self, apply_partial_rule(Self, rule_id, len_arg, before_shift)))
  /\ [](ShiftSite => StacksKept(Self, ShiftPartialOnce))
  /\ [](JumpSite => StacksKept(ReduceApplied, JumpPartialOnce))
  /\ [][/\ (ShiftSite /\ error' # "SemanticError")
             => /\ symbols' = Append(symbols, lookahead)
                /\ states' = Append(states, new_state)
        /\ (ShiftSite /\ error' = "SemanticError")
             => UNCHANGED <<symbols, states, input_index, lookahead>>
        /\ (JumpSite /\ ReduceApplied.raised = "")
             => /\ symbols' = ReduceApplied.symbols
                /\ UNCHANGED <<input_index, lookahead>>
                /\ states' = IF error' = "SemanticError" THEN ReduceApplied.states
                             ELSE Append(ReduceApplied.states,
                                         Cell(tabs.jump, ReduceTop, ReduceLhsIdx))]_vars

\* a partial action has been called before a shift with the lookahead
\* appended to its arguments, and the symbol stack was not empty
C36_Witness ==
  /\ ShiftSite
  /\ Len(symbols) > 0
  /\ Len(ShiftPartialOnce.calls) > Len(calls)
  /\ ShiftPartialOnce.raised = ""
  /\ PyAt(ShiftPartialOnce.calls, -1).args
       = Append(PySlice(symbols, Len(symbols) - ShiftPartialLen, Len(symbols)),
                lookahead)

\* a partial action has been called after a reduce
C36_WitnessJump ==
  /\ JumpSite
  /\ Len(JumpPartialOnce.calls) > Len(ReduceApplied.calls)
  /\ JumpPartialOnce.raised = ""

\* the parser stands before a reduce; the id of the rule it reduces by
ReduceSite ==
  /\ pc = "driving"
  /\ IsReduce
  /\ ReduceLookupsOK
  /\ steps < MaxSteps
ReduceRuleId == get_table_id(tabs.semantic_idx, rule_idx)

\* no active rule of P is gone in Q: every stack is at least as deep, the
\* entries below its top are the same and its top is still the same instance
NoActiveRulePopped(P, Q) ==
  \A r \in DOMAIN P.active_rules :
     /\ r \in DOMAIN Q.active_rules
     /\ Len(Q.active_rules[r]) >= Len(P.active_rules[r])
     /\ \A i \in 1..Len(P.active_rules[r]) :
          /\ Q.active_rules[r][i].handle = P.active_rules[r][i].handle
          /\ i < Len(P.active_rules[r]) => Q.active_rules[r][i] = P.active_rules[r][i]

\* between P and Q the top of rule_id's stack, if there is one, is gone and
\* nothing else; the action of rule_id, if there is one, was handed its retval
PopsOwnTop(P, Q, rule_id) ==
  LET old == StackOf(P, rule_id)
  IN /\ DOMAIN Q.active_rules = DOMAIN P.active_rules
     /\ \A r \in DOMAIN P.active_rules \ {rule_id} :
          Q.active_rules[r] = P.active_rules[r]
     /\ StackOf(Q, rule_id) = IF old # <<>> THEN SubSeq(old, 1, Len(old) - 1) ELSE old
     /\ rule_id \in semantics =>
          /\ Len(Q.calls) = Len(P.calls) + 1
          /\ PyAt(Q.calls, -1).rule = rule_id
          /\ PyAt(Q.calls, -1).done
          /\ PyAt(Q.calls, -1).prev = IF old # <<>> THEN old[Len(old)].retval ELSE None
          /\ PyAt(Q.calls, -1).handle = IF old # <<>> THEN old[Len(old)].handle ELSE -1

\* C37: active rules are removed only by a full reduction. apply_partial_rule
\* pops none, whatever it is called with; apply_rule(r) pops the top of r's
\* stack if there is one, hands its retval to r's action, and touches no
\* other entry and no other rule's stack. So in every step of a parse each
\* active rule stays at its place on its stack unless the step reduces by
\* its rule id and it is the top, and the stacks are at the end of the parse
\* what the last step left.
C37_PoppedOnlyByReduce ==
  /\ [](pc = "driving" =>
          \A rule_id \in RuleIds(tabs), len_arg \in 0..MaxLen, before_shift \in BOOLEAN :
             NoActiveRulePopped(Self, apply_partial_rule(Self, rule_id, len_arg, before_shift)))
  /\ [](ReduceSite =>
          /\ PopsOwnTop(Self, ReduceApplied, ReduceRuleId)
          /\ JumpSite => NoActiveRulePopped(ReduceApplied, JumpPartialOnce))
  /\ [][/\ pc = "driving" =>
             \A r \in DOMAIN active_rules : \A i \in 1..Len(active_rules[r]) :
                \/ /\ r \in DOMAIN active_rules'
                   /\ Len(active_rules'[r]) >= i
                   /\ active_rules'[r][i].handle = active_rules[r][i].handle
                \/ /\ ReduceSite /\ r = ReduceRuleId /\ i = Len(active_rules[r])
                   /\ \A j \in 1..Len(StackOf(Self', r)) :
                        StackOf(Self', r)[j].handle # active_rules[r][i].handle
        /\ pc \in {"returned", "raised"} /\ pc' \in {"returned", "raised"} =>
             UNCHANGED active_rules]_vars

\* a reduce pops the most recent of two active rules of its rule, whose
\* action it calls with the popped retval
C37_Witness ==
  /\ ReduceSite
  /\ ReduceRuleId \in semantics
  /\ Len(StackOf(Self, ReduceRuleId)) >= 2
  /\ PyAt(StackOf(Self, ReduceRuleId), -1).retval # None
  /\ ReduceApplied.raised = ""

\* a parse has ended with an active rule still on its stack
C37_WitnessStays ==
  /\ pc = "returned" /\ accepted
  /\ \E r \in DOMAIN active_rules : active_rules[r] # <<>>

\* a reduce hands its action the retval of an active rule whose partial calls
\* were made on other symbols than those it reduces
C37_WitnessLeftOver ==
  /\ ReduceSite
  /\ ReduceRuleId \in semantics
  /\ StackOf(Self, ReduceRuleId) # <<>>
  /\ ReduceApplied.raised = ""
  /\ PyAt(StackOf(Self, ReduceRuleId), -1).retval # None
  /\ ~IsPrefixOf(PyAt(StackOf(Self, ReduceRuleId), -1).retval.args,
                 PyAt(ReduceApplied.calls, -1).args)

\* the parser stands before a reduce by a rule with an empty right-hand side
EmptyRuleSite == ReduceSite /\ PyAt(tabs.num_rhs_syms, rule_idx) = 0

\* the nonterminal that the reduce at hand pushes
ReduceLhsId == get_table_id(tabs.nonterm_idx, ReduceLhsIdx)

\* C38: a reduce by a rule with num_rhs = 0 pops nothing from either stack
\* and calls the rule's action, if it has one, with an empty argument list;
\* unless the step raises, the symbol stack grows by the reduced
\* nonterminal and the state stack by the jump entry of the unchanged top
\* state, each by exactly one entry.
C38_EmptyRuleReduce ==
  /\ [](EmptyRuleSite =>
          /\ ReduceApplied.states = states
          /\ ReduceTop = top_state
          /\ SubSeq(ReduceApplied.symbols, 1, Len(symbols)) = symbols
          /\ ReduceApplied.raised = "" =>
               /\ Len(ReduceApplied.symbols) = Len(symbols) + 1
               /\ ~PyAt(ReduceApplied.symbols, -1).is_term
               /\ PyAt(ReduceApplied.symbols, -1).id = ReduceLhsId
          /\ ReduceApplied.raised # "" => ReduceApplied.symbols = symbols
          /\ ReduceRuleId \in semantics =>
               /\ Len(ReduceApplied.calls) = Len(calls) + 1
               /\ PyAt(ReduceApplied.calls, -1).rule = ReduceRuleId
               /\ PyAt(ReduceApplied.calls, -1).done
               /\ PyAt(ReduceApplied.calls, -1).args = <<>>
          /\ ReduceRuleId \notin semantics => ReduceApplied.calls = calls)
  /\ [][/\ (EmptyRuleSite /\ pc' = "driving")
             => /\ symbols' = ReduceApplied.symbols
                /\ Len(symbols') = Len(symbols) + 1
                /\ states' = Append(states, Cell(tabs.jump, top_state, ReduceLhsIdx))
        /\ (EmptyRuleSite /\ pc' # "driving")
             => /\ states' = states
                /\ symbols' = ReduceApplied.symbols]_vars

\* an empty rule with an action is reduced on stacks that are not empty
C38_Witness ==
  /\ EmptyRuleSite
  /\ Len(symbols) >= 2
  /\ ReduceRuleId \in semantics
  /\ ReduceApplied.raised = ""
  /\ InTable(tabs.jump, top_state, ReduceLhsIdx)

\* an empty rule is reduced as the first step of a parse
C38_WitnessFirst ==
  /\ EmptyRuleSite
  /\ symbols = <<>>
  /\ ReduceApplied.raised = ""

\* the cell of the reduce table at the loop head of parse() is the accept
\* value and the cell of the shift table is empty; the routine of the written
\* parser stands before its accept case
AcceptCell ==
  /\ pc = "driving" /\ HeadOK
  /\ Cell(tabs.shift, top_state, lookahead_idx) = tabs.err
  /\ Cell(tabs.reduce, top_state, lookahead_idx) = tabs.acc
GAcceptCase ==
  /\ g_pc = "running" /\ g_stack # <<>> /\ frame.at = "match"
  /\ TermCase(tabs, frame.state, g_lookahead.id).kind = "accept"

\* C39: the accepted flag is false from reset() through every step of a
\* parse and becomes true only in the accept step. In the table-driven
\* parser it is true after parse() exactly when parse() returned, which it
\* does through the accept branch only; a parse() that raised leaves it
\* false, and only the reset() of the next parse() clears it. In the written
\* parser it is false while any routine stands before its terminal match,
\* is set by the accept case only, and parse() returns a symbol only if
\* accepted is true and the symbol stack is not empty: the top symbol.
C39_AcceptedFlag ==
  /\ [](pc = "driving" => ~accepted)
  /\ [](pc = "raised" => ~accepted)
  /\ [](pc = "returned" => accepted)
  /\ []((g_pc = "running" /\ g_stack # <<>> /\ frame.at = "match") => ~g_accepted)
  /\ []((g_pc = "returned" /\ g_result # None) =>
          /\ g_accepted
          /\ Len(g_symbols) >= 1
          /\ g_result = PyAt(g_symbols, -1))
  /\ []((g_pc = "returned" /\ g_accepted /\ Len(g_symbols) >= 1) =>
          g_result = PyAt(g_symbols, -1))
  /\ [][/\ (~accepted /\ accepted') => (AcceptCell /\ pc' = "returned")
        /\ (pc = "driving" /\ pc' = "returned") => (AcceptCell /\ accepted')
        /\ (accepted /\ ~accepted') => pc = "init"
        /\ (~g_accepted /\ g_accepted') => GAcceptCase
        /\ (g_accepted /\ ~g_accepted') => g_pc = "init"]_vars

\* both parsers have accepted and returned the top symbol
C39_Witness ==
  /\ pc = "returned" /\ accepted /\ result # None
  /\ g_pc = "returned" /\ g_accepted /\ g_result # None

\* the written parse() has returned None with symbols on its stack, not
\* having accepted
C39_WitnessNotAccepted ==
  /\ g_pc = "returned" /\ ~g_accepted
  /\ Len(g_symbols) >= 1
  /\ g_result = None

\* a parse() on a Parser object that had accepted before is under way
C39_WitnessAfterAccept ==
  /\ prior # NoPrior /\ prior.accepted
  /\ pc = "driving" /\ Len(symbols) >= 1 /\ ~accepted

====
